---------------------------- MODULE Spec2Model ----------------------------
(***************************************************************************)
(* Model of tailbits/mason: the schema graph walker (walkRefs), the        *)
(* reference resolver (API.DereferenceSchema), the struct/schema           *)
(* consistency checker (sync.Validator) and the OpenAPI definition         *)
(* collector (ReflectorWrapper.addDefinition / collectDefinitions).        *)
(*                                                                         *)
(* Go strings that the code takes apart by prefix (reference tokens,       *)
(* definition keys, entity names) are sequences of their "/"-separated     *)
(* segments: "#/definitions/Health" is <<"#", "definitions", "Health">>    *)
(* and the entity name "Health" is <<"Health">>.  Schemas are compared as  *)
(* parsed jsonschema.Schema values.                                        *)
(***************************************************************************)
EXTENDS Integers, Sequences, FiniteSets, TLC

VARIABLES
  models,    \* API.models: entity name -> registered entity
  dIn,       \* the schema passed to the last DereferenceSchema call
  dOut,      \* what that call returned: [ok, sch, err]
  dLook,     \* the identifiers that call passed to API.GetModel
  dCalled,   \* TRUE once DereferenceSchema has been called
  vSch,      \* Validator.Sch
  vModel,    \* the type of Validator.Model
  vRes,      \* what Validator.IsSynced returned ("pending" before the call)
  allDefs,   \* ReflectorWrapper.allDefs
  components,\* Reflector.Spec.Components: whether set, and its Schemas
  cOp,       \* the last call on the ReflectorWrapper, with what it returned
  cAdds,     \* the number of addDefinition calls made
  cPrev,     \* the call on the ReflectorWrapper before the last one
  rSch,      \* the schema Model.JSONSchema returned last (at first: an entity's)
  rPrev,     \* the schema that call parsed
  rCount,    \* the number of Model.JSONSchema calls made
  regPc,     \* where the registering goroutine is: "idle", or "writing" API.models
  regEnt,    \* the entity registerModel is storing
  regCount,  \* the number of registerModel calls started
  getPc,     \* where the dereferencing goroutine is: "idle", or "reading" API.models
  getName,   \* the name its GetModel call looks up
  getRaced,  \* TRUE when a registerModel has overlapped that lookup
  getRes,    \* what its last GetModel call returned
  getCount,  \* the number of GetModel calls finished
  qFields,   \* the fields of the type parameter Q of DecodeQueryParams
  qForm,     \* r.Form: parameter name -> its first value
  qOut,      \* what DecodeQueryParams returned: [ok, params, at]
  qCalled,   \* TRUE once DecodeQueryParams has been called
  wRoot,     \* the schema pointer passed to the last walkRefs call (nil or a schema)
  wSeen,     \* the nodes walkSchema handed to its visitor in that call, in order
  wRefs,     \* the reference tokens the callback of that call was run on, in order
  wCalled,   \* TRUE once walkRefs has been called
  aIn,       \* the definitions the records of a ToSchema call lead to: [name, schema]
  aRes,      \* the error that ToSchema call returned ("pending" before the call)
  routes     \* the Register calls made on route builders, in order, each with its outcome

derefVars == <<models, dIn, dOut, dLook, dCalled>>

syncVars == <<vSch, vModel, vRes>>

collectVars == <<allDefs, components, cOp, cAdds, cPrev>>

rewriteVars == <<rSch, rPrev, rCount>>

raceVars == <<regPc, regEnt, regCount, getPc, getName, getRaced, getRes, getCount>>

queryVars == <<qFields, qForm, qOut, qCalled>>

walkVars == <<wRoot, wSeen, wRefs, wCalled>>

assembleVars == <<aIn, aRes>>

routeVars == <<routes>>

vars == <<derefVars, syncVars, collectVars, rewriteVars, raceVars, queryVars, walkVars, assembleVars, routeVars>>

-----------------------------------------------------------------------------
(* Bounds *)

\* the most reference-carrying members an input schema's allOf holds
MaxRefs == 2

\* the most tagged fields of a struct handed to the validator
MaxFields == 2

\* the most properties of an object schema handed to the validator
MaxProps == 2

\* the longest type list of a schema
MaxUnion == 2

\* the most addDefinition calls before the definitions are collected
MaxAdds == 3

\* the most times a schema is passed through Model.JSONSchema
MaxRewrites == 2

\* the definitions one ToSchema call is given at most
MaxInputs == 3

\* the most route builders registered on one API
MaxRoutes == 2

-----------------------------------------------------------------------------
(* jsonschema.Schema values *)

NilS == [k |-> "nil"]

NoType == [form |-> "none", ts |-> <<>>]

NoItems == [form |-> "none", one |-> NilS, many |-> <<>>]

EmptyMap == [x \in {} |-> NilS]

\* the zero jsonschema.Schema, wrapped as a SchemaOrBool with TypeObject set
S0 ==
  [k |-> "schema", ref |-> <<>>, typ |-> NoType, props |-> EmptyMap,
   addl |-> NilS, addItems |-> NilS, items |-> NoItems, contains |-> NilS,
   allOf |-> <<>>, anyOf |-> <<>>, oneOf |-> <<>>, notS |-> NilS,
   defs |-> EmptyMap, examples |-> 0]

BoolS(b) == [k |-> "bool", b |-> b]

\* a call on the ReflectorWrapper as recorded: the operation, its name and
\* schema arguments, the error it returned, allDefs and the Components'
\* schemas before it
COp(op, name, schema, err, before, committed) ==
  [op |-> op, name |-> name, schema |-> schema, err |-> err, before |-> before,
   committed |-> committed]

\* an error of the ReflectorWrapper; kind "ok" is nil
CErr(kind, a, b) == [kind |-> kind, a |-> a, b |-> b]

COk == CErr("ok", <<>>, <<>>)

\* setupReflector: no definitions, nothing called; Components is set by
\* the library when it reflects a structure, or never
CollectIdle ==
  /\ allDefs = EmptyMap
  /\ components = [set |-> FALSE, schemas |-> EmptyMap]
  /\ cOp = COp("none", <<>>, S0, COk, EmptyMap, EmptyMap)
  /\ cAdds = 0
  /\ cPrev = COp("none", <<>>, S0, COk, EmptyMap, EmptyMap)

\* no Model.JSONSchema has run
RewriteIdle ==
  /\ rSch = S0
  /\ rPrev = S0
  /\ rCount = 0

NoEntity == [name |-> <<>>, valid |-> FALSE, withSchema |-> FALSE, sch |-> S0]

\* the result of API.GetModel: the entity and the ok flag; "torn" is a value
\* that is no entity ever stored, "fatal" the runtime's abort of the process
GetRes(kind, e) == [kind |-> kind, ent |-> e]

\* no goroutine is in registerModel or GetModel
RaceIdle ==
  /\ regPc = "idle"
  /\ regEnt = NoEntity
  /\ regCount = 0
  /\ getPc = "idle"
  /\ getName = <<>>
  /\ getRaced = FALSE
  /\ getRes = GetRes("none", NoEntity)
  /\ getCount = 0

\* no DecodeQueryParams has run
QueryIdle ==
  /\ qFields = <<>>
  /\ qForm = EmptyMap
  /\ qOut = [ok |-> TRUE, params |-> <<>>, at |-> 0]
  /\ qCalled = FALSE

\* no walkRefs has run
WalkIdle ==
  /\ wRoot = NilS
  /\ wSeen = <<>>
  /\ wRefs = <<>>
  /\ wCalled = FALSE

\* no ToSchema has run
AssembleIdle ==
  /\ aIn = <<>>
  /\ aRes = [kind |-> "pending"]

\* no route builder has been registered
RouteIdle == routes = <<>>

\* no Validator has run
SyncIdle ==
  /\ vSch = S0
  /\ vModel = [kind |-> "invalid"]
  /\ vRes = [kind |-> "pending", a |-> "", b |-> "", at |-> <<>>]

SimpleT(t) == [form |-> "simple", ts |-> <<t>>]

ListT(ts) == [form |-> "list", ts |-> ts]

TypedS(t) == [S0 EXCEPT !.typ = t]

RefS(tok) == [S0 EXCEPT !.ref = tok]

DefPrefix == <<"#", "definitions">>

CompPrefix == <<"#", "components", "schemas">>

DefTok(name) == DefPrefix \o name

CompTok(name) == CompPrefix \o name

HasPrefix(s, pre) ==
  /\ Len(s) > Len(pre)
  /\ SubSeq(s, 1, Len(pre)) = pre

TrimPrefix(s, pre) ==
  IF HasPrefix(s, pre) THEN SubSeq(s, Len(pre) + 1, Len(s)) ELSE s

\* m with key k set to v (a Go map assignment)
MapPut(m, k, v) ==
  [x \in DOMAIN m \cup {k} |-> IF x = k THEN v ELSE m[x]]

\* the values of Go map m in the iteration order perm (a permutation of a
\* superset of its keys): Go leaves the order of a range over a map open
MapValues(m, perm) ==
  LET keys == SelectSeq(perm, LAMBDA x : x \in DOMAIN m)
  IN  [i \in 1..Len(keys) |-> m[keys[i]]]

SeqRange(q) == {q[i] : i \in 1..Len(q)}

Perms(S) ==
  {p \in [1..Cardinality(S) -> S] : \A i, j \in 1..Cardinality(S) : p[i] = p[j] => i = j}

-----------------------------------------------------------------------------
(* walkSchema / walkRefs *)

RECURSIVE walkSchema(_, _)
RECURSIVE walkAll(_, _)

\* the same without the descent into Not
walkSchemaSkippingNot(sob, pord) ==
  IF sob.k # "schema" THEN <<>>
  ELSE <<sob>>
       \o walkSchema(sob.addItems, pord)
       \o (IF sob.items.form = "tuple" THEN walkAll(sob.items.many, pord) ELSE <<>>)
       \o (IF sob.items.form = "single" THEN walkSchema(sob.items.one, pord) ELSE <<>>)
       \o walkSchema(sob.contains, pord)
       \o walkSchema(sob.addl, pord)
       \o walkAll(MapValues(sob.props, pord), pord)
       \o walkAll(sob.allOf, pord)
       \o walkAll(sob.anyOf, pord)
       \o walkAll(sob.oneOf, pord)

\* the nodes walkSchema hands to its visitor, in order
walkSchema(sob, pord) ==
  IF sob.k # "schema" THEN <<>>
  ELSE <<sob>>
       \o walkSchema(sob.addItems, pord)
       \o (IF sob.items.form = "tuple" THEN walkAll(sob.items.many, pord) ELSE <<>>)
       \o (IF sob.items.form = "single" THEN walkSchema(sob.items.one, pord) ELSE <<>>)
       \o walkSchema(sob.contains, pord)
       \o walkSchema(sob.addl, pord)
       \o walkAll(MapValues(sob.props, pord), pord)
       \o walkAll(sob.allOf, pord)
       \o walkAll(sob.anyOf, pord)
       \o walkAll(sob.oneOf, pord)
       \o walkSchema(sob.notS, pord)

walkAll(sobs, pord) ==
  IF sobs = <<>> THEN <<>>
  ELSE walkSchema(Head(sobs), pord) \o walkAll(Tail(sobs), pord)

\* walkRefs' apply: the visitor runs on the nodes whose Ref is set
applyRefs(nodes) ==
  LET withRef == SelectSeq(nodes, LAMBDA n : n.ref # <<>>)
  IN  [i \in 1..Len(withRef) |-> withRef[i].ref]

\* the nodes a walkRefs call visits when its callback leaves the schema
\* alone: none for a nil schema, else those of the root and then those of
\* each value of the root's Definitions, ranged in the order dord
walkRefs(root, pord, dord) ==
  IF root.k # "schema" THEN <<>>
  ELSE walkSchema(root, pord) \o walkAll(MapValues(root.defs, dord), pord)

-----------------------------------------------------------------------------
(* The entity registry (API.models) and API.DereferenceSchema *)

Names == {<<"A">>, <<"B">>, <<"C">>}

NextName(n) ==
  IF n = <<"A">> THEN <<"B">> ELSE IF n = <<"B">> THEN <<"C">> ELSE <<"A">>

PropNames == {"p", "q"}

ObjectS == TypedS(SimpleT("object"))

\* an object schema whose property "p" is a reference to entity m
PropRef(m) == [ObjectS EXCEPT !.props = [x \in {"p"} |-> RefS(DefTok(m))]]

\* an entity: Name(), Schema() (its bytes are valid JSON or not, and what
\* they parse to), and whether the value implements model.WithSchema
Entity(n, valid, s) == [name |-> n, valid |-> valid, withSchema |-> TRUE, sch |-> s]

Entities ==
  {Entity(n, TRUE, ObjectS) : n \in Names}
    \cup {Entity(n, TRUE, PropRef(NextName(n))) : n \in Names}
    \cup {Entity(<<"C">>, FALSE, S0)}

NoErr == [kind |-> "none", id |-> <<>>]

ErrNotFound(id) == [kind |-> "notFound", id |-> id]

ErrNoSchema(id) == [kind |-> "noSchema", id |-> id]

ErrJSON(id) == [kind |-> "json", id |-> id]

\* API.GetModel
GetModel(reg, name) ==
  IF name \in DOMAIN reg THEN [ok |-> TRUE, e |-> reg[name]]
  ELSE [ok |-> FALSE, e |-> Entity(<<>>, FALSE, S0)]

\* json.Unmarshal of an entity's schema bytes into the closure's err
UnmarshalErr(e, id) == IF e.valid THEN NoErr ELSE ErrJSON(id)

\* derefCallback without its test of the schema's own definitions: every
\* reference is looked up in the registry and its entity's schema stored
derefCallbackAlwaysLookup(reg, st, ref) ==
  LET id == TrimPrefix(ref, DefPrefix)
      got == GetModel(reg, id)
      looked == [st EXCEPT !.look = @ \cup {id}]
  IN  IF ~got.ok THEN [looked EXCEPT !.err = ErrNotFound(id)]
      ELSE IF ~got.e.valid THEN [looked EXCEPT !.err = ErrJSON(id)]
      ELSE [looked EXCEPT !.err = NoErr, !.defs = MapPut(@, id, got.e.sch)]

\* the closure DereferenceSchema hands to walkRefs, run on one reference
\* token; st holds what it captures: sch.Definitions, err, and (for the
\* record) the identifiers it has looked up
derefCallback(reg, st, ref) ==
  LET id == TrimPrefix(ref, DefPrefix)
      got == GetModel(reg, id)
      looked == [st EXCEPT !.look = @ \cup {id}]
  IN  IF id \in DOMAIN st.defs THEN st
      ELSE IF ~got.ok THEN [looked EXCEPT !.err = ErrNotFound(id)]
      ELSE IF ~got.e.withSchema THEN [looked EXCEPT !.err = ErrNoSchema(id)]
      ELSE IF ~got.e.valid THEN [looked EXCEPT !.err = UnmarshalErr(got.e, id)]
      ELSE [looked EXCEPT !.err = UnmarshalErr(got.e, id),
                          !.defs = MapPut(@, id, got.e.sch)]

RECURSIVE derefFold(_, _, _)

derefFold(reg, st, refs) ==
  IF refs = <<>> THEN st
  ELSE derefFold(reg, derefCallback(reg, st, Head(refs)), Tail(refs))

\* the first key of the permutation perm that is in S
FirstIn(perm, S) ==
  perm[CHOOSE i \in 1..Len(perm) :
         /\ perm[i] \in S
         /\ \A j \in 1..(i - 1) : perm[j] \notin S]

RECURSIVE derefDefsLoop(_, _, _, _)

\* walkRefs' range over schema.Definitions.  The closure inserts into the
\* map being ranged over: Go produces the entries present at the start in
\* an unspecified order (o.d) and may or may not produce an entry created
\* during the iteration (it does for the keys in o.late)
derefDefsLoop(reg, st, pending, o) ==
  IF pending = {} THEN st
  ELSE LET key == FirstIn(o.d, pending)
           after == derefFold(reg, st, applyRefs(walkSchema(st.defs[key], o.p)))
           created == DOMAIN after.defs \ DOMAIN st.defs
       IN  derefDefsLoop(reg, after, (pending \ {key}) \cup (created \cap o.late), o)

\* walkRefs(&sch, closure): the root first, then the definitions table as
\* it is once the root has been walked
derefWalkRefs(reg, sch, o) ==
  LET start == [defs |-> sch.defs, err |-> NoErr, look |-> {}]
      root == derefFold(reg, start, applyRefs(walkSchema(sch, o.p)))
  IN  derefDefsLoop(reg, root, DOMAIN root.defs, o)

\* API.DereferenceSchema on a schema that parses
DereferenceSchema(reg, sch, o) ==
  LET st == derefWalkRefs(reg, sch, o)
  IN  IF st.err.kind # "none"
        THEN [ok |-> FALSE, sch |-> S0, err |-> st.err, look |-> st.look]
        ELSE [ok |-> TRUE, sch |-> [sch EXCEPT !.defs = st.defs], err |-> NoErr,
              look |-> st.look]

\* the orders in which one call on sch may range over its maps: the
\* definitions it ranges over are the schema's own and those it inserts,
\* which are registered entities the schema does not define
Orders(reg, sch) ==
  [p : Perms(PropNames),
   d : Perms(DOMAIN sch.defs \cup DOMAIN reg),
   late : SUBSET (DOMAIN reg \ DOMAIN sch.defs)]

DefToks == {DefTok(n) : n \in Names}

RefToks == DefToks \cup {CompTok(<<"A">>)}

RefSeqs == UNION {[1..n -> DefToks] : n \in 0..MaxRefs}

RefNodes(toks) == [i \in 1..Len(toks) |-> RefS(toks[i])]

LocalDefs ==
  {EmptyMap}
    \cup {[x \in {n} |-> ObjectS] : n \in {<<"A">>, <<"C">>}}
    \cup {[x \in {n} |-> PropRef(NextName(n))] : n \in {<<"A">>, <<"C">>}}

\* the schemas handed to DereferenceSchema: references as the members of
\* allOf (walked in sequence) beside a definitions table of the schema's
\* own, or as the values of two properties (walked in map order)
DerefInputs ==
  {[ObjectS EXCEPT !.allOf = RefNodes(t), !.defs = d] : t \in RefSeqs, d \in LocalDefs}
    \cup {[ObjectS EXCEPT !.props = [x \in PropNames |->
                                       RefS(IF x = "p" THEN t1 ELSE t2)]] :
            t1 \in RefToks, t2 \in RefToks}

\* the orders that make a difference to a call on sch
OrdersFor(reg, sch) ==
  {o \in Orders(reg, sch) : DOMAIN sch.props = {} => o.p = <<"p", "q">>}

DerefIdle ==
  /\ models = EmptyMap
  /\ dIn = S0
  /\ dOut = [ok |-> TRUE, sch |-> S0, err |-> NoErr]
  /\ dLook = {}
  /\ dCalled = FALSE

DerefInit == DerefIdle /\ SyncIdle /\ CollectIdle /\ RewriteIdle /\ RaceIdle /\ QueryIdle /\ WalkIdle /\ AssembleIdle /\ RouteIdle

\* API.registerModel.  The registry is filled while routes are registered;
\* a behaviour then observes one DereferenceSchema call, which leaves the
\* API as it found it
RegisterModel(e) ==
  /\ ~dCalled
  /\ models' = MapPut(models, e.name, e)
  /\ UNCHANGED <<dIn, dOut, dLook, dCalled, syncVars, collectVars, rewriteVars, raceVars, queryVars, walkVars, assembleVars, routeVars>>

DoDereference(sch, o) ==
  /\ ~dCalled
  /\ \E r \in {DereferenceSchema(models, sch, o)} :
       /\ dIn' = sch
       /\ dOut' = [ok |-> r.ok, sch |-> r.sch, err |-> r.err]
       /\ dLook' = r.look
  /\ dCalled' = TRUE
  /\ UNCHANGED <<models, syncVars, collectVars, rewriteVars, raceVars, queryVars, walkVars, assembleVars, routeVars>>

DerefNext ==
  \/ \E e \in Entities : RegisterModel(e)
  \/ \E sch \in DerefInputs : \E o \in OrdersFor(models, sch) : DoDereference(sch, o)

SpecDeref == DerefInit /\ [][DerefNext]_vars

-----------------------------------------------------------------------------
(* sync.Validator: runtime values (reflect.Value, by their types) *)

NoT == [kind |-> "invalid"]

\* a Go type as reflect shows it: its Kind, its element type (pointer,
\* slice, array, map), its fields (struct), its name where the code tests
\* for one (time.Time, json.RawMessage), and whether values of it implement
\* model.WithSchema or a ShouldSkip that returns true
GoType(kind, elem, fields, named) ==
  [kind |-> kind, elem |-> elem, fields |-> fields, named |-> named,
   entity |-> FALSE, skip |-> FALSE]

Prim(kind) == GoType(kind, NoT, <<>>, "")

PtrTo(t) == GoType("ptr", t, <<>>, "")

SliceOf(t) == GoType("slice", t, <<>>, "")

ArrayOf(t) == GoType("array", t, <<>>, "")

MapOf(t) == GoType("map", t, <<>>, "")

StructOf(fields) == GoType("struct", NoT, fields, "")

TimeT == GoType("struct", NoT, <<>>, "time.Time")

RawMessageT == GoType("slice", Prim("uint8"), <<>>, "json.RawMessage")

InterfaceT == Prim("interface")

\* a struct field: the name part of its json tag ("" when it has no tag),
\* whether the tag carries omitempty, and its type
Field(tag, omit, typ) == [tag |-> tag, omit |-> omit, typ |-> typ]

\* a struct type that contains itself: through a pointer, a slice or a map
SelfTypes == {"NodePtr", "NodeSlice", "NodeMap"}

NodeT(name) == GoType("struct", NoT, <<>>, name)

\* val.NumField() / val.Type().Field(i): the fields of a struct type.  A
\* type that contains itself is named in its own field and has its fields
\* looked up here
fieldsOf(t) ==
  IF t.named = "NodePtr" THEN <<Field("x", TRUE, PtrTo(NodeT("NodePtr")))>>
  ELSE IF t.named = "NodeSlice" THEN <<Field("x", FALSE, SliceOf(NodeT("NodeSlice")))>>
  ELSE IF t.named = "NodeMap" THEN <<Field("x", TRUE, MapOf(NodeT("NodeMap")))>>
  ELSE t.fields

\* parseTag: the tag's name and its options
parseTag(f) == [name |-> f.tag, omitempty |-> f.omit]

\* the part of the raw tag before its first comma
TagHead(f) == f.tag

\* the result of a check: nil, one of the package's error types, an error
\* made with fmt.Errorf (the kinds in lower case), or a runtime panic
Res(kind, a, b, at) == [kind |-> kind, a |-> a, b |-> b, at |-> at]

Synced == Res("ok", "", "", <<>>)

UntypedKinds ==
  {"missingType", "multipleTypes", "badRefPrefix", "refNotFound", "unknownType",
   "nonInterface", "missingProperty", "additionalPropertiesAllowed", "strictMap",
   "compositionFailed"}

\* serverDefined taking every field name as assigned by the server
serverDefinedAny(fieldName) == TRUE

\* Validator.serverDefined
serverDefined(fieldName) == fieldName = "id"

\* Validator.isByteArray
isByteArray(t) == t.kind \in {"slice", "array"} /\ t.elem.kind = "uint8"

\* Validator.isJSONRawMessage
isJSONRawMessage(t) == isByteArray(t) /\ t.named = "json.RawMessage"

\* Validator.isTimestamp
isTimestamp(t) == t.kind = "struct" /\ t.named = "time.Time"

\* Validator.isInterface
isInterface(t) == t.kind = "interface"

\* Validator.isIntegerValue
isIntegerValue(t) == t.kind \in {"int", "int8", "int16", "int32", "int64"}

\* Validator.isNumericValue
isNumericValue(t) == isIntegerValue(t) \/ t.kind \in {"float32", "float64"}

\* Validator.isStrict
isStrict(sch) == sch.addl.k = "bool" /\ ~sch.addl.b

\* getType never reporting a type list as nullable
getTypeNeverNullable(sch) ==
  LET ts == sch.typ.ts
      types == SelectSeq(ts, LAMBDA t : t # "null")
  IN  IF sch.typ.form = "none" THEN [t |-> "", nullable |-> FALSE, err |-> "missingType"]
      ELSE IF sch.typ.form = "simple" THEN [t |-> ts[1], nullable |-> FALSE, err |-> ""]
      ELSE IF Len(types) > 1 THEN [t |-> "", nullable |-> FALSE, err |-> "multipleTypes"]
      ELSE IF Len(types) = 0 THEN [t |-> "", nullable |-> FALSE, err |-> "panic"]
      ELSE [t |-> types[1], nullable |-> FALSE, err |-> ""]

\* Validator.getType: [t, nullable, err]; indexing the empty types slice
\* panics
getType(sch) ==
  LET ts == sch.typ.ts
      types == SelectSeq(ts, LAMBDA t : t # "null")
      nullable == \E i \in 1..Len(ts) : ts[i] = "null"
  IN  IF sch.typ.form = "none" THEN [t |-> "", nullable |-> FALSE, err |-> "missingType"]
      ELSE IF sch.typ.form = "simple" THEN [t |-> ts[1], nullable |-> FALSE, err |-> ""]
      ELSE IF Len(types) > 1 THEN [t |-> "", nullable |-> FALSE, err |-> "multipleTypes"]
      ELSE IF Len(types) = 0 THEN [t |-> "", nullable |-> FALSE, err |-> "panic"]
      ELSE [t |-> types[1], nullable |-> nullable, err |-> ""]

\* ensureDereference on a node whose Ref is set: the node the root's
\* definitions hold under the key after "#/definitions/"
derefLocal(root, sch) ==
  LET key == TrimPrefix(sch.ref, DefPrefix)
  IN  IF ~HasPrefix(sch.ref, DefPrefix)
        THEN [sch |-> S0, nullable |-> FALSE, err |-> "badRefPrefix"]
      ELSE IF key \notin DOMAIN root.defs \/ root.defs[key].k # "schema"
        THEN [sch |-> S0, nullable |-> FALSE, err |-> "refNotFound"]
      ELSE [sch |-> root.defs[key], nullable |-> FALSE, err |-> ""]

RECURSIVE ensureOneOf(_, _, _)

\* ensureDereference's loop over sch.OneOf, acc = [sch: inner, nullable, err]
ensureOneOf(root, members, acc) ==
  IF members = <<>> \/ acc.err # "" THEN acc
  ELSE LET s == Head(members)
           d == derefLocal(root, s)
       IN  IF s.k # "schema" THEN ensureOneOf(root, Tail(members), acc)
           ELSE IF s.typ.form = "simple" /\ s.typ.ts = <<"null">>
             THEN ensureOneOf(root, Tail(members), [acc EXCEPT !.nullable = TRUE])
           ELSE IF s.ref # <<>>
             THEN ensureOneOf(root, Tail(members),
                              IF d.err # "" THEN d
                              ELSE [acc EXCEPT !.sch = d.sch,
                                               !.nullable = @ \/ d.nullable])
           ELSE ensureOneOf(root, Tail(members), acc)

\* Validator.ensureDereference
ensureDereference(root, sch) ==
  IF sch.ref # <<>> THEN derefLocal(root, sch)
  ELSE ensureOneOf(root, sch.oneOf, [sch |-> sch, nullable |-> FALSE, err |-> ""])

\* the breadcrumbs of the root value: Validator.Name
RootCrumbs == <<"Root">>

NullableFieldError(at) == Res("NullableFieldError", "", "", at)

SchemaTypeError(expected, got, at) == Res("SchemaTypeError", expected, got, at)

AdditionalPropertyError(property, at) == Res("AdditionalPropertyError", property, "", at)

\* mustBeNullable without the omitempty exemption
mustBeNullableStrict(t, val, isEntity, nullable, omitEmpty, at) ==
  \/ t.kind = "ptr" /\ at # RootCrumbs /\ ~isEntity /\ ~nullable
  \/ val.kind = "map" /\ ~isEntity /\ ~nullable

\* the pointer and map tests of traverse: a pointer anywhere but at the
\* root, and a map anywhere, must be nullable in the schema unless the value
\* is a model.WithSchema or the field is tagged omitempty
mustBeNullable(t, val, isEntity, nullable, omitEmpty, at) ==
  \/ t.kind = "ptr" /\ at # RootCrumbs /\ ~isEntity /\ ~nullable /\ ~omitEmpty
  \/ val.kind = "map" /\ ~isEntity /\ ~nullable /\ ~omitEmpty

\* traverse on a nil schema
nilSchema(t, at) ==
  IF isInterface(t) THEN Res("nonInterface", t.kind, "", at) ELSE Synced

\* the primitive cases of traverse's switch
matchPrimitive(t, val, at) ==
  CASE t = "boolean" ->
         IF val.kind # "bool" THEN SchemaTypeError("boolean", val.kind, at) ELSE Synced
    [] t = "integer" ->
         IF ~isIntegerValue(val) THEN SchemaTypeError("integer", val.kind, at) ELSE Synced
    [] t = "number" ->
         IF ~isNumericValue(val) THEN SchemaTypeError("number", val.kind, at) ELSE Synced
    [] t = "string" ->
         IF val.kind # "string" /\ ~isByteArray(val) /\ ~isTimestamp(val)
           THEN SchemaTypeError("string", val.kind, at) ELSE Synced
    [] OTHER -> Res("unknownType", t, "", at)

RECURSIVE traverse(_, _, _, _, _, _, _)
RECURSIVE structFields(_, _, _, _, _, _, _)
RECURSIVE checkEach(_, _, _, _, _, _, _, _)
RECURSIVE matchArray(_, _, _, _, _, _)

\* the second loop of the struct case: the first schema property, in map
\* order, that no field's tag names
structProps(sch, fields, at, pord) ==
  LET found(k) == \E i \in 1..Len(fields) : fields[i].tag # "" /\ TagHead(fields[i]) = k
      keys == SelectSeq(pord, LAMBDA k : k \in DOMAIN sch.props /\ ~found(k))
  IN  IF keys = <<>> THEN Synced ELSE AdditionalPropertyError(keys[1], at)

\* the first loop of the struct case, from field i on
structFields(root, sch, fields, i, at, pord, seen) ==
  IF i > Len(fields) THEN structProps(sch, fields, at, pord)
  ELSE LET f == fields[i]
           tag == IF parseTag(f).name # "" THEN parseTag(f).name ELSE f.tag
           ok == tag \in DOMAIN sch.props
           r == traverse(root, sch.props[tag], f.typ, parseTag(f).omitempty,
                         Append(at, tag), pord, seen)
       IN  IF f.tag = "" \/ f.tag = "-" THEN structFields(root, sch, fields, i + 1, at, pord, seen)
           ELSE IF ~ok /\ ~serverDefined(tag) THEN Res("missingProperty", tag, "", at)
           ELSE IF sch.addl.k = "schema" THEN Res("panic", "nil TypeBoolean", "", at)
           ELSE IF sch.addl.k = "bool" /\ sch.addl.b
             THEN Res("additionalPropertiesAllowed", "", "", at)
           ELSE IF ~ok THEN structFields(root, sch, fields, i + 1, at, pord, seen)
           ELSE IF sch.props[tag].k # "schema"
             THEN structFields(root, sch, fields, i + 1, at, pord, seen)
           ELSE IF r.kind # "ok" THEN r
           ELSE structFields(root, sch, fields, i + 1, at, pord, seen)

\* checkArray and checkMap: the value against each schema in turn, under
\* the breadcrumbs of its index or key; a boolean schema is a nil
\* *jsonschema.Schema
checkEach(root, sobs, labels, i, val, at, pord, seen) ==
  IF i > Len(sobs) THEN Synced
  ELSE LET r == traverse(root, sobs[i], val, FALSE, Append(at, labels[i]), pord, seen)
       IN  IF r.kind # "ok" THEN r
           ELSE checkEach(root, sobs, labels, i + 1, val, at, pord, seen)

\* Validator.checkArray
checkArray(root, sobs, val, at, pord, seen) ==
  checkEach(root, sobs, [i \in 1..Len(sobs) |-> ToString(i - 1)], 1, val, at, pord, seen)

\* Validator.checkMap, the map ranged in the order pord
checkMap(root, props, val, at, pord, seen) ==
  checkEach(root, MapValues(props, pord),
            SelectSeq(pord, LAMBDA k : k \in DOMAIN props), 1, val, at, pord, seen)

\* the map case of traverse
matchMap(root, sch, val, at, pord, seen) ==
  LET key == Append(at, "[key]")
      r == traverse(root, sch.addl, val.elem, FALSE, key, pord, seen)
  IN  IF isStrict(sch) THEN Res("strictMap", "", "", at)
      ELSE IF sch.addl.k = "schema" /\ r.kind # "ok" THEN r
      ELSE checkMap(root, sch.props, val.elem, key, pord, seen)

\* an error of checkArray as traverse reports it: formatted with %s
compositionFailed(which, r, at) ==
  IF r.kind \in {"ok", "panic", "stackOverflow"} THEN r ELSE Res("compositionFailed", which, r.kind, at)

\* the array case of traverse
matchArray(root, sch, val, at, pord, seen) ==
  LET allOf == compositionFailed("allOf", checkArray(root, sch.allOf, val.elem, at, pord, seen), at)
      oneOf == compositionFailed("oneOf", checkArray(root, sch.oneOf, val.elem, at, pord, seen), at)
      anyOf == compositionFailed("anyOf", checkArray(root, sch.anyOf, val.elem, at, pord, seen), at)
  IN  IF val.kind # "slice" THEN SchemaTypeError("array or slice", val.kind, at)
      ELSE IF allOf.kind # "ok" THEN allOf
      ELSE IF oneOf.kind # "ok" THEN oneOf
      ELSE IF anyOf.kind # "ok" THEN anyOf
      ELSE IF sch.items.form = "none" THEN Synced
      ELSE IF sch.items.form = "tuple" THEN Res("panic", "nil Items.SchemaOrBool", "", at)
      ELSE traverse(root, sch.items.one, val.elem, FALSE, Append(at, "0"), pord, seen)

\* one activation of traverse: its arguments, the breadcrumbs taken for
\* what alone matters of them (whether they are the root's)
Frame(sob, t, omitEmpty, at) ==
  [sob |-> sob, t |-> t, omitEmpty |-> omitEmpty, root |-> (at = RootCrumbs)]

\* Validator.traverse: sob is the schema pointer (nil when not a schema
\* object), t the type of val, root the Validator's Sch.  seen holds the
\* activations this one is nested in: traverse keeps no state, so an
\* activation equal to one it is nested in recurs without end, and the
\* call ends when the goroutine's stack is exhausted
traverse(root, sob, t, omitEmpty, at, pord, seen) ==
  IF Frame(sob, t, omitEmpty, at) \in seen THEN Res("stackOverflow", "", "", at)
  ELSE IF t.skip THEN Synced
  ELSE IF sob.k # "schema" THEN nilSchema(t, at)
  ELSE
    LET d == ensureDereference(root, sob)
        g == getType(d.sch)
        nullable == d.nullable \/ g.nullable
        val == IF t.kind = "ptr" THEN t.elem ELSE t
        inner == seen \cup {Frame(sob, t, omitEmpty, at)}
    IN  IF d.err # "" THEN Res(d.err, "", "", at)
        ELSE IF g.err # "" THEN Res(g.err, "", "", at)
        ELSE IF mustBeNullable(t, val, t.entity, nullable, omitEmpty, at)
          THEN NullableFieldError(at)
        ELSE IF isJSONRawMessage(val) \/ isInterface(val) THEN Synced
        ELSE IF g.t = "object"
          THEN IF val.kind = "struct"
                 THEN structFields(root, d.sch, fieldsOf(val), 1, at, pord, inner)
               ELSE IF val.kind = "map" THEN matchMap(root, d.sch, val, at, pord, inner)
               ELSE SchemaTypeError("map or a struct", val.kind, at)
        ELSE IF g.t = "array" THEN matchArray(root, d.sch, val, at, pord, inner)
        ELSE matchPrimitive(g.t, val, at)

\* Validator.IsSynced
IsSynced(sch, t, pord) == traverse(sch, sch, t, FALSE, RootCrumbs, pord, {})

-----------------------------------------------------------------------------
(* The validator's inputs and its specification *)

AllKinds ==
  {"bool", "int", "int8", "int16", "int32", "int64", "uint", "uint8", "uint16",
   "uint32", "uint64", "uintptr", "float32", "float64", "complex64", "complex128",
   "string"}

IntS == TypedS(SimpleT("integer"))

StringS == TypedS(SimpleT("string"))

NullS == TypedS(SimpleT("null"))

IntNullS == TypedS(ListT(<<"integer", "null">>))

IntListS == TypedS(ListT(<<"integer">>))

SubName == <<"Sub">>

\* the oneOf[null, ref] idiom
OneOfNullRefS == [S0 EXCEPT !.oneOf = <<NullS, RefS(DefTok(SubName))>>]

\* a struct without fields whose pointer implements model.WithSchema
EntityPtrT == [PtrTo(StructOf(<<>>)) EXCEPT !.entity = TRUE]

\* a type whose SkipSchemaValidation returns true
SkippedT == [StructOf(<<>>) EXCEPT !.skip = TRUE]

FieldTags == {"x", "y", "id"}

\* field types with the omitempty settings that matter for them
FieldShapes ==
  {[omit |-> FALSE, typ |-> Prim("int")], [omit |-> FALSE, typ |-> EntityPtrT]}
    \cup [omit : BOOLEAN, typ : {PtrTo(Prim("int")), MapOf(Prim("string"))}]

FieldsOver(tags) ==
  {Field(t, sh.omit, sh.typ) : t \in tags, sh \in FieldShapes}

\* the place of a tag in the order the structs declare their fields in
TagRank(tag) == CASE tag = "x" -> 1 [] tag = "y" -> 2 [] tag = "id" -> 3

\* sequences of fields with different tags, in the order of declaration
FieldSeqs ==
  {q \in UNION {[1..n -> FieldsOver(FieldTags)] : n \in 0..MaxFields} :
     \A i, j \in 1..Len(q) : i < j => TagRank(q[i].tag) < TagRank(q[j].tag)}

SchemaPropNames == {"x", "y", "z"}

PropSchemas == {IntNullS, IntListS, OneOfNullRefS}

PropMaps ==
  UNION {[ks -> PropSchemas] :
           ks \in {k \in SUBSET SchemaPropNames : Cardinality(k) <= MaxProps}}

AdditionalChoices == {NilS, BoolS(FALSE), BoolS(TRUE)}

SyncIn(sch, typ) == [sch |-> sch, typ |-> typ]

\* a pointer to a struct against an object schema
StructInput(pm, ad, fs) ==
  SyncIn([ObjectS EXCEPT !.props = pm, !.addl = ad,
                         !.defs = [x \in {SubName} |-> ObjectS]],
         PtrTo(StructOf(fs)))

TypeNames == {"null", "integer", "string"}

TypeLists == UNION {[1..n -> TypeNames] : n \in 0..MaxUnion}

PrimitiveSchemas ==
  {TypedS(SimpleT(t)) : t \in {"boolean", "integer", "number", "string", "null"}}
    \cup {TypedS(ListT(ts)) : ts \in TypeLists}
    \cup {S0}

PrimitiveTypes ==
  {Prim(k) : k \in AllKinds}
    \cup {SliceOf(Prim("uint8")), ArrayOf(Prim("uint8")), SliceOf(Prim("int")),
          TimeT, RawMessageT, StructOf(<<>>), SkippedT, PtrTo(Prim("int")),
          PtrTo(Prim("string"))}


ElemTypes == {Prim("int"), Prim("string"), InterfaceT, PtrTo(Prim("int"))}

MemberSchemas == {BoolS(TRUE), IntS, StringS}

MemberSeqs == {<<>>} \cup {<<m>> : m \in MemberSchemas}

ItemsChoices ==
  {NoItems}
    \cup {[form |-> "single", one |-> m, many |-> <<>>] : m \in MemberSchemas}
    \cup {[form |-> "tuple", one |-> NilS, many |-> <<IntS>>]}

ArrayS == TypedS(SimpleT("array"))

\* the values checked against array schemas
ArrayTypes == {SliceOf(e) : e \in ElemTypes} \cup {ArrayOf(Prim("int")), Prim("int")}

\* a slice (or an array, or an int) against an array schema
ArrayInput(al, an, on, it, t) ==
  SyncIn([ArrayS EXCEPT !.allOf = al, !.anyOf = an, !.oneOf = on, !.items = it], t)

MapProps ==
  UNION {[ks -> MemberSchemas] : ks \in SUBSET {"x", "y"}}

\* a map against an object schema
MapInput(ty, ad, pm, e) == SyncIn([TypedS(ty) EXCEPT !.addl = ad, !.props = pm], MapOf(e))

SubName2 == <<"Sub2">>

\* an object schema whose property "x" is link
NodeS(link) == [ObjectS EXCEPT !.props = [x \in {"x"} |-> link]]

\* the ways a property leads on to the definition Sub: a reference, the
\* oneOf[null, ref] idiom, an array of it, a map of it
SelfLinks ==
  {RefS(DefTok(SubName)), OneOfNullRefS,
   [ArrayS EXCEPT !.items = [form |-> "single", one |-> RefS(DefTok(SubName)),
                             many |-> <<>>]],
   [ObjectS EXCEPT !.addl = RefS(DefTok(SubName))]}

\* the definitions beside it: Sub referring to itself, Sub referring to
\* itself through Sub2, Sub without properties, Sub a bare reference to
\* itself
SelfDefs(link) ==
  {[x \in {SubName} |-> NodeS(link)],
   [x \in {SubName, SubName2} |->
      IF x = SubName THEN NodeS(RefS(DefTok(SubName2))) ELSE NodeS(link)],
   [x \in {SubName} |-> ObjectS],
   [x \in {SubName} |-> RefS(DefTok(SubName))]}

\* the struct types checked against them: the three that contain
\* themselves, and one whose field points to a struct without fields
SelfStructs ==
  {NodeT(n) : n \in SelfTypes}
    \cup {StructOf(<<Field("x", TRUE, PtrTo(StructOf(<<>>)))>>)}

\* a struct, or a pointer to it, against a schema with such definitions
SelfInput(link, defs, t, ptr) ==
  SyncIn([NodeS(link) EXCEPT !.defs = defs], IF ptr THEN PtrTo(t) ELSE t)

\* every property name of a schema, for the orders its maps can be ranged in
PropKeysOf(sch) ==
  LET u == <<"x", "y", "z">>
      nodes == SeqRange(walkSchema(sch, u))
                 \cup UNION {SeqRange(walkSchema(sch.defs[k], u)) : k \in DOMAIN sch.defs}
  IN  UNION {DOMAIN n.props : n \in nodes}

\* new: a Validator on a schema and a model, IsSynced not yet called
NewValidator(in) ==
  /\ vSch = in.sch
  /\ vModel = in.typ
  /\ vRes = [kind |-> "pending", a |-> "", b |-> "", at |-> <<>>]

SyncInit ==
  /\ DerefIdle
  /\ CollectIdle
  /\ RewriteIdle
  /\ RaceIdle
  /\ QueryIdle
  /\ WalkIdle
  /\ AssembleIdle
  /\ RouteIdle
  /\ \/ \E pm \in PropMaps, ad \in AdditionalChoices, fs \in FieldSeqs :
          NewValidator(StructInput(pm, ad, fs))
     \/ \E sch \in PrimitiveSchemas, t \in PrimitiveTypes : NewValidator(SyncIn(sch, t))
     \/ \E al \in MemberSeqs, an \in MemberSeqs, on \in MemberSeqs :
          \E it \in ItemsChoices, t \in ArrayTypes :
            NewValidator(ArrayInput(al, an, on, it, t))
     \/ \E ty \in {SimpleT("object"), ListT(<<"object", "null">>)} :
          \E ad \in AdditionalChoices \cup {IntS, StringS}, pm \in MapProps, e \in ElemTypes :
            NewValidator(MapInput(ty, ad, pm, e))
     \/ \E link \in SelfLinks, t \in SelfStructs, ptr \in BOOLEAN :
          \E defs \in SelfDefs(link) : NewValidator(SelfInput(link, defs, t, ptr))

\* Validator.IsSynced, once on the Validator as built
DoIsSynced(pord) ==
  /\ vRes.kind = "pending"
  /\ vRes' = IsSynced(vSch, vModel, pord)
  /\ UNCHANGED <<vSch, vModel, derefVars, collectVars, rewriteVars, raceVars, queryVars, walkVars, assembleVars, routeVars>>

SyncNext == \E pord \in Perms(PropKeysOf(vSch)) : DoIsSynced(pord)

SpecSync == SyncInit /\ [][SyncNext]_vars

-----------------------------------------------------------------------------
(* Model.JSONSchema: the references rewritten for the published document *)

RECURSIVE replaceAllDefs(_)

\* strings.ReplaceAll(ref, "#/definitions/", "#/components/schemas/")
replaceAllDefs(s) ==
  IF s = <<>> THEN <<>>
  ELSE IF HasPrefix(s, DefPrefix)
    THEN CompPrefix \o replaceAllDefs(SubSeq(s, Len(DefPrefix) + 1, Len(s)))
  ELSE <<Head(s)>> \o replaceAllDefs(Tail(s))

\* the callback without its TrimPrefix
rewriteRefStacking(ref) == CompPrefix \o replaceAllDefs(ref)

\* the callback JSONSchema hands to walkRefs, on the token of one node
rewriteRef(ref) == CompPrefix \o TrimPrefix(replaceAllDefs(ref), CompPrefix)

RECURSIVE rewriteNode(_)

\* walkSchema with the callback: the node and the nodes below it, with
\* every Ref that is set rewritten
rewriteNode(sob) ==
  IF sob.k # "schema" THEN sob
  ELSE [k |-> sob.k,
        ref |-> IF sob.ref = <<>> THEN <<>> ELSE rewriteRef(sob.ref),
        typ |-> sob.typ,
        props |-> [x \in DOMAIN sob.props |-> rewriteNode(sob.props[x])],
        addl |-> rewriteNode(sob.addl),
        addItems |-> rewriteNode(sob.addItems),
        items |-> [form |-> sob.items.form,
                   one |-> IF sob.items.form = "single" THEN rewriteNode(sob.items.one)
                           ELSE sob.items.one,
                   many |-> IF sob.items.form = "tuple"
                              THEN [i \in DOMAIN sob.items.many |->
                                      rewriteNode(sob.items.many[i])]
                              ELSE sob.items.many],
        contains |-> rewriteNode(sob.contains),
        allOf |-> [i \in DOMAIN sob.allOf |-> rewriteNode(sob.allOf[i])],
        anyOf |-> [i \in DOMAIN sob.anyOf |-> rewriteNode(sob.anyOf[i])],
        oneOf |-> [i \in DOMAIN sob.oneOf |-> rewriteNode(sob.oneOf[i])],
        notS |-> rewriteNode(sob.notS),
        defs |-> sob.defs,
        examples |-> sob.examples]

\* walkRefs with the callback: the root, then each of the root's definitions
rewriteRefs(sch) ==
  [rewriteNode(sch) EXCEPT !.defs = [x \in DOMAIN sch.defs |-> rewriteNode(sch.defs[x])]]

\* Model.JSONSchema on an entity whose Schema() parses to sch and whose
\* Example() parses: the example attached, the references rewritten
JSONSchema(sch) == rewriteRefs([sch EXCEPT !.examples = 1])

-----------------------------------------------------------------------------
(* openapi.ReflectorWrapper: the definitions collected for the document *)

\* the empty definition name
EmptyName == <<"">>

CNames == {<<"Widget">>, <<"widget">>, <<"Gadget">>}

\* strings.ToLower on the names in use
ToLower(name) ==
  [i \in DOMAIN name |->
     CASE name[i] = "Widget" -> "widget"
       [] name[i] = "Gadget" -> "gadget"
       [] OTHER -> name[i]]

\* the examples of a schema are 0 for none, and else name the list it carries
WithExample(s) == [s EXCEPT !.examples = 1]

\* the schema with another list of examples
WithOtherExample(s) == [s EXCEPT !.examples = 2]

WithDefs(s, defs) == [s EXCEPT !.defs = defs]

\* the schemas handed to addDefinition
CSchemas ==
  {StringS, WithExample(StringS), WithOtherExample(StringS), IntS,
   WithDefs(StringS, [n \in {<<"widget">>} |-> IntS]),
   WithExample(WithDefs(StringS, [n \in {<<"widget">>} |-> IntS])),
   WithDefs(StringS, [n \in {<<"Gadget">>} |-> BoolS(TRUE)]),
   WithDefs(IntS, [n \in {<<"Gadget">>, <<"Widget">>} |-> StringS])}

\* the schemas of the entities handed to addModel: a reference in a
\* property; the same with a definition that holds a reference; the same
\* with a definition that has a definition of its own holding a reference
CModelSchemas ==
  LET refTo(n) == [ObjectS EXCEPT !.props = [x \in {"p"} |-> RefS(DefTok(n))]]
  IN  {refTo(<<"Gadget">>),
       WithDefs(refTo(<<"Gadget">>), [n \in {<<"Gadget">>} |-> refTo(<<"Gadget">>)]),
       WithDefs(refTo(<<"Gadget">>),
                [n \in {<<"Gadget">>} |->
                   WithDefs(ObjectS, [m \in {<<"Part">>} |-> refTo(<<"Gadget">>)])])}

\* isSchemaIdentical taking any two schemas as identical
isSchemaIdenticalAlways(a, b) == TRUE

\* isSchemaIdentical taking no two schemas as identical
isSchemaIdenticalNever(a, b) == FALSE

\* isSchemaIdentical stripping the examples of the new schema only
isSchemaIdenticalStrippingNew(a, b) == a = [b EXCEPT !.examples = 0]

\* isSchemaIdentical: equal once marshalled without their examples
isSchemaIdentical(a, b) == [a EXCEPT !.examples = 0] = [b EXCEPT !.examples = 0]

RECURSIVE addDefinition(_, _, _, _)
RECURSIVE addNested(_, _, _, _, _)

\* addDefinition storing the new schema whatever examples the stored one has
addDefinitionAlwaysStores(defs, name, schema, ord) ==
  IF name = EmptyName THEN [defs |-> defs, err |-> CErr("emptyName", <<>>, <<>>)]
  ELSE IF name \in DOMAIN defs /\ ~isSchemaIdentical(defs[name], schema)
    THEN [defs |-> defs, err |-> CErr("differentDefinition", name, <<>>)]
  ELSE addNested(MapPut(defs, name, schema), schema.defs,
                 SelectSeq(ord, LAMBDA k : k \in DOMAIN schema.defs), 1, ord)

\* addDefinition keeping the stored schema whenever it has examples
addDefinitionKeepsStored(defs, name, schema, ord) ==
  IF name = EmptyName THEN [defs |-> defs, err |-> CErr("emptyName", <<>>, <<>>)]
  ELSE IF name \in DOMAIN defs /\ ~isSchemaIdentical(defs[name], schema)
    THEN [defs |-> defs, err |-> CErr("differentDefinition", name, <<>>)]
  ELSE IF name \in DOMAIN defs /\ defs[name].examples > 0
    THEN [defs |-> defs, err |-> COk]
  ELSE addNested(MapPut(defs, name, schema), schema.defs,
                 SelectSeq(ord, LAMBDA k : k \in DOMAIN schema.defs), 1, ord)

\* ReflectorWrapper.addDefinition on the definitions defs, ranging the
\* schema's nested definitions in the order ord; gives the definitions
\* left behind and the error returned
addDefinition(defs, name, schema, ord) ==
  IF name = EmptyName THEN [defs |-> defs, err |-> CErr("emptyName", <<>>, <<>>)]
  ELSE IF name \in DOMAIN defs /\ ~isSchemaIdentical(defs[name], schema)
    THEN [defs |-> defs, err |-> CErr("differentDefinition", name, <<>>)]
  ELSE IF name \in DOMAIN defs /\ defs[name].examples > 0 /\ schema.examples = 0
    THEN [defs |-> defs, err |-> COk]
  ELSE addNested(MapPut(defs, name, schema), schema.defs,
                 SelectSeq(ord, LAMBDA k : k \in DOMAIN schema.defs), 1, ord)

\* the loop of addDefinition over schema.Definitions, from the i-th key on
addNested(defs, nested, keys, i, ord) ==
  IF i > Len(keys) THEN [defs |-> defs, err |-> COk]
  ELSE IF nested[keys[i]].k # "schema" THEN addNested(defs, nested, keys, i + 1, ord)
  ELSE LET r == addDefinition(defs, keys[i], nested[keys[i]], ord)
       IN  IF r.err.kind # "ok" THEN r
           ELSE addNested(r.defs, nested, keys, i + 1, ord)

RECURSIVE firstDuplicate(_, _)

\* the first loop of collectDefinitions over the names in the order keys:
\* the error for the first name whose lower-case form was seen before
firstDuplicate(keys, i) ==
  IF i > Len(keys) THEN COk
  ELSE IF \E j \in 1..(i - 1) : ToLower(keys[j]) = ToLower(keys[i])
    THEN CErr("conflicting",
              keys[CHOOSE j \in 1..(i - 1) : ToLower(keys[j]) = ToLower(keys[i])],
              keys[i])
  ELSE firstDuplicate(keys, i + 1)

\* collectDefinitions without its first loop
collectDefinitionsUnchecked(defs, comps, keys) ==
  [err |-> COk,
   comps |-> IF ~comps.set THEN comps
             ELSE [comps EXCEPT !.schemas =
                     [n \in DOMAIN defs \cup DOMAIN comps.schemas |->
                        IF n \in DOMAIN defs THEN [defs[n] EXCEPT !.defs = EmptyMap]
                        ELSE comps.schemas[n]]]]

\* ReflectorWrapper.collectDefinitions, allDefs ranged in the order keys
collectDefinitions(defs, comps, keys) ==
  IF firstDuplicate(keys, 1).kind # "ok"
    THEN [err |-> firstDuplicate(keys, 1), comps |-> comps]
  ELSE [err |-> COk,
        comps |-> IF ~comps.set THEN comps
                  ELSE [comps EXCEPT !.schemas =
                          [n \in DOMAIN defs \cup DOMAIN comps.schemas |->
                             IF n \in DOMAIN defs THEN [defs[n] EXCEPT !.defs = EmptyMap]
                             ELSE comps.schemas[n]]]]

Collected == cOp.op = "collect"

CollectInit ==
  /\ DerefIdle
  /\ SyncIdle
  /\ RewriteIdle
  /\ RaceIdle
  /\ QueryIdle
  /\ WalkIdle
  /\ AssembleIdle
  /\ RouteIdle
  /\ allDefs = EmptyMap
  /\ components \in [set : BOOLEAN, schemas : {EmptyMap}]
  /\ cOp = COp("none", <<>>, S0, COk, EmptyMap, EmptyMap)
  /\ cAdds = 0
  /\ cPrev = COp("none", <<>>, S0, COk, EmptyMap, EmptyMap)

\* a call of addDefinition, as addModel makes it while records are
\* ingested; ToSchema returns at the first call that fails
AddDefinition(name, schema, ord) ==
  /\ ~Collected
  /\ cOp.err = COk
  /\ cAdds < MaxAdds
  /\ cPrev' = cOp
  /\ LET r == addDefinition(allDefs, name, schema, ord)
     IN  /\ allDefs' = r.defs
         /\ cOp' = COp("add", name, schema, r.err, allDefs, components.schemas)
  /\ cAdds' = cAdds + 1
  /\ UNCHANGED <<components, derefVars, syncVars, rewriteVars, raceVars, queryVars, walkVars, assembleVars, routeVars>>

\* ReflectorWrapper.addModel on an entity named name whose Schema() parses
\* to schema: the definition added is what Model.JSONSchema makes of it
AddModel(name, schema, ord) ==
  /\ ~Collected
  /\ cOp.err = COk
  /\ cAdds < MaxAdds
  /\ cPrev' = cOp
  /\ LET r == addDefinition(allDefs, name, JSONSchema(schema), ord)
     IN  /\ allDefs' = r.defs
         /\ cOp' = COp("add", name, JSONSchema(schema), r.err, allDefs,
                  components.schemas)
  /\ cAdds' = cAdds + 1
  /\ UNCHANGED <<components, derefVars, syncVars, rewriteVars, raceVars, queryVars, walkVars, assembleVars, routeVars>>

\* the call of collectDefinitions that ToSchema makes after ingesting
CollectDefinitions(keys) ==
  /\ ~Collected
  /\ cOp.err = COk
  /\ cPrev' = cOp
  /\ LET r == collectDefinitions(allDefs, components, keys)
     IN  /\ components' = r.comps
         /\ cOp' = COp("collect", <<>>, S0, r.err, allDefs, components.schemas)
  /\ UNCHANGED <<allDefs, cAdds, derefVars, syncVars, rewriteVars, raceVars, queryVars, walkVars, assembleVars, routeVars>>

CollectNext ==
  \/ \E name \in CNames \cup {EmptyName}, schema \in CSchemas :
       \E ord \in Perms(DOMAIN schema.defs) : AddDefinition(name, schema, ord)
  \/ \E name \in {<<"Widget">>, <<"Gadget">>}, schema \in CModelSchemas :
       AddModel(name, schema, <<<<"Gadget">>, <<"Part">>>>)
  \/ \E keys \in Perms(DOMAIN allDefs) : CollectDefinitions(keys)

SpecCollect == CollectInit /\ [][CollectNext]_vars

-----------------------------------------------------------------------------
(* The schemas Model.JSONSchema is applied to, and its specification *)

\* the reference tokens of the entities' schemas
RewriteToks ==
  {DefTok(<<"A">>), CompTok(<<"A">>), <<"A">>, <<"other", "path", "A">>,
   DefPrefix \o DefTok(<<"A">>), CompPrefix \o DefTok(<<"B">>)}

\* an entity's schema: references in a property, in allOf and in a definition
RewriteInput(t1, t2, t3) ==
  [ObjectS EXCEPT !.props = [x \in {"p"} |-> RefS(t1)],
                  !.allOf = <<RefS(t2), StringS>>,
                  !.defs = [x \in {<<"A">>} |->
                              [ObjectS EXCEPT !.items = [form |-> "single", one |-> RefS(t3),
                                                         many |-> <<>>]]]]

RewriteInit ==
  /\ DerefIdle
  /\ SyncIdle
  /\ CollectIdle
  /\ \E t1 \in RewriteToks, t2 \in RewriteToks, t3 \in RewriteToks :
       rSch = RewriteInput(t1, t2, t3)
  /\ rPrev = S0
  /\ rCount = 0
  /\ RaceIdle
  /\ QueryIdle
  /\ WalkIdle
  /\ AssembleIdle
  /\ RouteIdle

\* Model.JSONSchema on the entity whose schema is the last one published
DoJSONSchema ==
  /\ rCount < MaxRewrites
  /\ rPrev' = rSch
  /\ rSch' = JSONSchema(rSch)
  /\ rCount' = rCount + 1
  /\ UNCHANGED <<derefVars, syncVars, collectVars, raceVars, queryVars, walkVars, assembleVars, routeVars>>

RewriteNext == DoJSONSchema

SpecRewrite == RewriteInit /\ [][RewriteNext]_vars

-----------------------------------------------------------------------------
(* API.models under concurrent registration and lookup.  API.models is a   *)
(* plain Go map (mason.go:66,75) and neither registerModel nor GetModel    *)
(* takes a lock: a map assignment and a map read are each several machine  *)
(* steps, so a goroutine can be inside one while another is inside the     *)
(* other.  By the Go memory model such a pair of accesses is a data race:  *)
(* the read may see the map as it was or as it will be, a value that was   *)
(* never stored, or the runtime may abort with "concurrent map read and    *)
(* map write".                                                             *)

MaxRegs == 2

MaxGets == 2

RaceNames == {<<"A">>, <<"B">>}

RaceEntities ==
  {Entity(n, TRUE, s) : n \in RaceNames, s \in {ObjectS, PropRef(<<"C">>)}}

\* e, ok := a.models[name] when no write overlaps the read
lookup(reg, name) ==
  IF name \in DOMAIN reg THEN GetRes("found", reg[name])
  ELSE GetRes("absent", NoEntity)

\* what a read of a.models[name] can give when a write of entity e has
\* overlapped it
racedLookup(reg, name, e) ==
  {lookup(reg, name), lookup(MapPut(reg, e.name, e), name),
   GetRes("torn", NoEntity), GetRes("fatal", NoEntity)}

RaceInit ==
  /\ DerefIdle
  /\ SyncIdle
  /\ CollectIdle
  /\ RewriteIdle
  /\ RaceIdle
  /\ QueryIdle
  /\ WalkIdle
  /\ AssembleIdle
  /\ RouteIdle

\* API.registerModel enters the map assignment
BeginRegisterModel(e) ==
  /\ regPc = "idle"
  /\ regCount < MaxRegs
  /\ getRes.kind # "fatal"
  /\ regPc' = "writing"
  /\ regEnt' = e
  /\ regCount' = regCount + 1
  /\ getRaced' = (getRaced \/ getPc = "reading")
  /\ UNCHANGED <<getPc, getName, getRes, getCount>>
  /\ UNCHANGED <<derefVars, syncVars, collectVars, rewriteVars, queryVars, walkVars, assembleVars, routeVars>>

\* API.registerModel leaves the map assignment: the entity is stored
EndRegisterModel ==
  /\ regPc = "writing"
  /\ getRes.kind # "fatal"
  /\ models' = MapPut(models, regEnt.name, regEnt)
  /\ regPc' = "idle"
  /\ UNCHANGED <<regEnt, regCount, getPc, getName, getRaced, getRes, getCount>>
  /\ UNCHANGED <<dIn, dOut, dLook, dCalled, syncVars, collectVars, rewriteVars, queryVars, walkVars, assembleVars, routeVars>>

\* the callback of DereferenceSchema calls API.GetModel, which enters the
\* map read
BeginGetModel(name) ==
  /\ getPc = "idle"
  /\ getCount < MaxGets
  /\ getRes.kind # "fatal"
  /\ getPc' = "reading"
  /\ getName' = name
  /\ getRaced' = (regPc = "writing")
  /\ UNCHANGED <<regPc, regEnt, regCount, getRes, getCount>>
  /\ UNCHANGED <<derefVars, syncVars, collectVars, rewriteVars, queryVars, walkVars, assembleVars, routeVars>>

\* API.GetModel returns
EndGetModel ==
  /\ getPc = "reading"
  /\ getRes' \in (IF getRaced THEN racedLookup(models, getName, regEnt)
                   ELSE {lookup(models, getName)})
  /\ getPc' = "idle"
  /\ getCount' = getCount + 1
  /\ UNCHANGED <<regPc, regEnt, regCount, getName, getRaced>>
  /\ UNCHANGED <<derefVars, syncVars, collectVars, rewriteVars, queryVars, walkVars, assembleVars, routeVars>>

RaceNext ==
  \/ \E e \in RaceEntities : BeginRegisterModel(e)
  \/ EndRegisterModel
  \/ \E n \in RaceNames : BeginGetModel(n)
  \/ EndGetModel

SpecRace == RaceInit /\ [][RaceNext]_vars

-----------------------------------------------------------------------------
(* DecodeQueryParams (http.go).  The texts it parses (parameter values and *)
(* default tags) are sequences of characters: "12" is <<"1", "2">> and ""  *)
(* is <<>>.  A field is the name part of its json tag, its default tag and *)
(* its type; a decoded value is a record of its type, its text (strings),  *)
(* its number (int, bool as 0/1, time as Unix seconds) and, for pointer    *)
(* fields, whether it is nil.                                              *)

MaxQFields == 2

QT(kind, elem) == [kind |-> kind, elem |-> elem]

QField(tag, dflt, typ) == [tag |-> tag, dflt |-> dflt, typ |-> typ]

QVal(t, s, n, ptr) == [t |-> t, s |-> s, n |-> n, ptr |-> ptr]

\* var params Q: every field at its zero value
QZero(typ) ==
  IF typ.kind = "ptr" THEN QVal(typ.elem, <<>>, 0, "nil")
  ELSE QVal(typ.kind, <<>>, 0, "no")

Digits == <<"0", "1", "2", "3", "4", "5", "6", "7", "8", "9">>

IsDigit(c) == \E d \in 1..Len(Digits) : Digits[d] = c

DigitOf(c) == (CHOOSE d \in 1..Len(Digits) : Digits[d] = c) - 1

RECURSIVE digitsValue(_, _)
digitsValue(s, acc) ==
  IF s = <<>> THEN acc ELSE digitsValue(Tail(s), acc * 10 + DigitOf(Head(s)))

\* strconv.Atoi (and strconv.ParseInt(s, 10, 64)) on texts short enough
\* not to overflow: an optional sign, then one or more decimal digits
Atoi(s) ==
  LET signed == s # <<>> /\ Head(s) \in {"+", "-"}
      ds == IF signed THEN Tail(s) ELSE s
  IN  IF ds = <<>> \/ \E i \in 1..Len(ds) : ~IsDigit(ds[i])
      THEN [ok |-> FALSE, n |-> 0]
      ELSE [ok |-> TRUE,
            n |-> IF signed /\ Head(s) = "-" THEN 0 - digitsValue(ds, 0)
                  ELSE digitsValue(ds, 0)]

\* strconv.ParseBool
ParseBool(s) ==
  IF s \in {<<"1">>, <<"t">>, <<"T">>, <<"T", "R", "U", "E">>,
            <<"t", "r", "u", "e">>, <<"T", "r", "u", "e">>}
  THEN [ok |-> TRUE, n |-> 1]
  ELSE IF s \in {<<"0">>, <<"f">>, <<"F">>, <<"F", "A", "L", "S", "E">>,
                 <<"f", "a", "l", "s", "e">>, <<"F", "a", "l", "s", "e">>}
  THEN [ok |-> TRUE, n |-> 0]
  ELSE [ok |-> FALSE, n |-> 0]

\* parseQueryTime.  Every layout it tries first holds two "-" after a
\* four-digit year; a text without "-" at its fifth place matches none of
\* them and is left to the integer timestamp
parseQueryTime(s) ==
  IF Len(s) >= 10 /\ s[5] = "-"
  THEN [ok |-> \A i \in 1..4 : IsDigit(s[i]), n |-> 0]
  ELSE Atoi(s)

\* r.Form.Get(tag): the first value of the parameter, "" when there is none
FormGet(form, tag) ==
  IF tag \in DOMAIN form.vals THEN form.vals[tag] ELSE <<>>

\* the same with the default tag ignored
valueOrDefaultIgnored(value, defaultValue) == value

\* if value == "" && defaultValue != "" { value = defaultValue }
valueOrDefault(value, defaultValue) ==
  IF value = <<>> /\ defaultValue # <<>> THEN defaultValue ELSE value

QSet(v) == [ok |-> TRUE, set |-> TRUE, v |-> v]

QSkip == [ok |-> TRUE, set |-> FALSE, v |-> QVal("", <<>>, 0, "no")]

QFail == [ok |-> FALSE, set |-> FALSE, v |-> QVal("", <<>>, 0, "no")]

\* the switch on the field's kind: the value stored, or nothing stored, or
\* the error
setField(typ, value) ==
  LET base == IF typ.kind = "ptr" THEN typ.elem ELSE typ.kind
      ptr == IF typ.kind = "ptr" THEN "set" ELSE "no"
      num == IF base = "int" THEN Atoi(value)
             ELSE IF base = "bool" THEN ParseBool(value)
             ELSE parseQueryTime(value)
  IN  IF base = "string" THEN QSet(QVal(base, value, 0, ptr))
      ELSE IF base \in {"int", "bool", "time"}
        THEN IF num.ok THEN QSet(QVal(base, <<>>, num.n, ptr)) ELSE QFail
      ELSE IF typ.kind = "ptr" THEN QSkip
      ELSE QFail

\* the loop of DecodeQueryParams from field i on; at is the field the
\* error was returned at
RECURSIVE decodeFields(_, _, _, _)
decodeFields(fields, form, i, params) ==
  IF i > Len(fields) THEN [ok |-> TRUE, params |-> params, at |-> 0]
  ELSE LET field == fields[i]
           value == valueOrDefault(FormGet(form, field.tag), field.dflt)
           r == setField(field.typ, value)
       IN  IF field.tag = "" \/ value = <<>>
           THEN decodeFields(fields, form, i + 1, params)
           ELSE IF ~r.ok THEN [ok |-> FALSE, params |-> params, at |-> i]
           ELSE decodeFields(fields, form, i + 1,
                             IF r.set THEN [params EXCEPT ![i] = r.v] ELSE params)

DecodeQueryParams(fields, form) ==
  LET params == [i \in 1..Len(fields) |-> QZero(fields[i].typ)]
  IN  IF form.bad THEN [ok |-> FALSE, params |-> params, at |-> 0]
      ELSE decodeFields(fields, form, 1, params)

QBases == {"string", "int", "bool", "time", "float64"}

QTypes ==
  {QT(b, "") : b \in QBases \cup {"struct"}} \cup {QT("ptr", b) : b \in QBases}

QDefaults == {<<>>, <<"1">>, <<"x">>}

QValues == {<<>>, <<"0">>, <<"1">>, <<"1", "2">>, <<"t">>, <<"x">>}

QTag(i) == <<"a", "b", "c">>[i]

\* the field at place i: any of the types with any of the defaults, or one
\* of three plain fields
QFieldsAt(i, any) ==
  IF any THEN {QField(QTag(i), d, t) : d \in QDefaults, t \in QTypes}
  ELSE {QField("", <<>>, QT("string", "")),
        QField(QTag(i), <<>>, QT("string", "")),
        QField(QTag(i), <<"1">>, QT("int", ""))}

\* r.Form after ParseForm: the parameters that are present, or the failure
\* of ParseForm on a malformed query string
QForm(bad, vals) == [bad |-> bad, vals |-> vals]

QueryInit ==
  /\ DerefIdle
  /\ SyncIdle
  /\ CollectIdle
  /\ RewriteIdle
  /\ RaceIdle
  /\ WalkIdle
  /\ AssembleIdle
  /\ RouteIdle
  /\ \E k \in 1..MaxQFields :
       qFields \in {fs \in [1..MaxQFields -> UNION {QFieldsAt(i, b) : i \in 1..MaxQFields, b \in BOOLEAN}] :
                      \A i \in 1..MaxQFields : fs[i] \in QFieldsAt(i, i = k)}
  /\ qForm = QForm(FALSE, EmptyMap)
  /\ qOut = [ok |-> TRUE, params |-> <<>>, at |-> 0]
  /\ qCalled = FALSE

\* one request: its query string either is rejected by ParseForm or gives
\* the parameters that are present
QForms ==
  {QForm(TRUE, EmptyMap)}
    \cup UNION {{QForm(FALSE, vals) : vals \in [present -> QValues]} :
                  present \in SUBSET {QTag(i) : i \in 1..MaxQFields}}

DoDecodeQueryParams(form) ==
  /\ ~qCalled
  /\ qForm' = form
  /\ qOut' = DecodeQueryParams(qFields, form)
  /\ qCalled' = TRUE
  /\ UNCHANGED <<qFields, derefVars, syncVars, collectVars, rewriteVars, raceVars, walkVars, assembleVars, routeVars>>

QueryNext == \E form \in QForms : DoDecodeQueryParams(form)

SpecQuery == QueryInit /\ [][QueryNext]_vars

-----------------------------------------------------------------------------
(* walkRefs on its own: one call with a callback that records the token it *)
(* is given and leaves the schema as it is                                 *)

WalkEdges ==
  <<"addItems", "item", "items", "contains", "addl", "props", "allOf", "anyOf",
    "oneOf", "notS">>

\* node n with the children c and d hung on its edge e (d only where the
\* edge holds more than one schema)
Put(n, e, c, d) ==
  IF e = "addItems" THEN [n EXCEPT !.addItems = c]
  ELSE IF e = "item" THEN [n EXCEPT !.items = [form |-> "single", one |-> c, many |-> <<>>]]
  ELSE IF e = "items" THEN [n EXCEPT !.items = [form |-> "tuple", one |-> NilS, many |-> <<c, d>>]]
  ELSE IF e = "contains" THEN [n EXCEPT !.contains = c]
  ELSE IF e = "addl" THEN [n EXCEPT !.addl = c]
  ELSE IF e = "props" THEN [n EXCEPT !.props = [x \in {"x", "y"} |-> IF x = "x" THEN c ELSE d]]
  ELSE IF e = "allOf" THEN [n EXCEPT !.allOf = <<c, d>>]
  ELSE IF e = "anyOf" THEN [n EXCEPT !.anyOf = <<c, d>>]
  ELSE IF e = "oneOf" THEN [n EXCEPT !.oneOf = <<c, d>>]
  ELSE [n EXCEPT !.notS = c]

\* a node whose own definitions table holds a reference
NestedDefsS == [ObjectS EXCEPT !.defs = [x \in {<<"N">>} |-> RefS(DefTok(<<"N">>))]]

\* the nodes without children: typed, a reference, a boolean schema, a
\* reference that has a definitions table of its own, a node with one
WalkLeaves ==
  {ObjectS, RefS(DefTok(<<"A">>)), BoolS(TRUE),
   [RefS(DefTok(<<"B">>)) EXCEPT !.defs = NestedDefsS.defs], NestedDefsS}

WalkDefs(mid, leaf) ==
  {EmptyMap,
   [x \in {<<"A">>} |-> leaf],
   [x \in {<<"A">>, <<"B">>} |-> IF x = <<"A">> THEN mid ELSE RefS(DefTok(<<"A">>))],
   [x \in {<<"A">>} |-> BoolS(FALSE)]}

\* a schema of depth two: a node under the root's edge e1 that has a leaf
\* under its own edge e3, leaves under the root's edge e2, and definitions
WalkInput(e1, e2, e3, leaf, defs) ==
  LET mid == Put(S0, e3, leaf, RefS(CompTok(<<"A">>)))
  IN  [Put(Put(ObjectS, e1, mid, leaf), e2, leaf, mid) EXCEPT !.defs = defs]

WalkInit ==
  /\ DerefIdle
  /\ SyncIdle
  /\ CollectIdle
  /\ RewriteIdle
  /\ RaceIdle
  /\ QueryIdle
  /\ AssembleIdle
  /\ RouteIdle
  /\ \/ wRoot = NilS
     \/ \E i1 \in 1..Len(WalkEdges), i3 \in 1..Len(WalkEdges), leaf \in WalkLeaves :
          \E i2 \in i1..Len(WalkEdges) :
            \E defs \in WalkDefs(Put(S0, WalkEdges[i3], leaf, leaf), leaf) :
              wRoot = WalkInput(WalkEdges[i1], WalkEdges[i2], WalkEdges[i3], leaf, defs)
  /\ wSeen = <<>>
  /\ wRefs = <<>>
  /\ wCalled = FALSE

\* walkRefs(wRoot, f), the maps ranged in the orders pord and dord
DoWalkRefs(pord, dord) ==
  /\ ~wCalled
  /\ \E nodes \in {walkRefs(wRoot, pord, dord)} :
       /\ wSeen' = nodes
       /\ wRefs' = applyRefs(nodes)
  /\ wCalled' = TRUE
  /\ UNCHANGED <<wRoot, derefVars, syncVars, collectVars, rewriteVars, raceVars, queryVars, assembleVars, routeVars>>

WalkNext ==
  \E pord \in Perms({"x", "y"}), dord \in Perms({<<"A">>, <<"B">>}) : DoWalkRefs(pord, dord)

SpecWalk == WalkInit /\ [][WalkNext]_vars

-----------------------------------------------------------------------------
(* ToSchema: the definitions of the records ingested, then committed *)

\* the names and the schemas of the definitions the records lead to
AssembleNames == <<<<"Widget">>, <<"widget">>, <<"Gadget">>>>

AssembleSchemas ==
  <<StringS, WithExample(StringS), IntS,
    WithDefs(StringS, [n \in {<<"Gadget">>} |-> IntS]),
    WithExample(WithDefs(StringS, [n \in {<<"Gadget">>} |-> IntS])),
    WithDefs(IntS, [n \in {<<"Gadget">>, <<"Widget">>} |-> StringS])>>

\* the i-th pair of a name and a schema
AssemblePair(i) ==
  [name |-> AssembleNames[((i - 1) % Len(AssembleNames)) + 1],
   schema |-> AssembleSchemas[((i - 1) \div Len(AssembleNames)) + 1]]

AssemblePairs == Len(AssembleNames) * Len(AssembleSchemas)

RECURSIVE ingest(_, _, _, _)

\* ReflectorWrapper.ingest from the i-th definition on: addDefinition for
\* each in turn, returning at the first that fails
ingest(defs, ins, i, ord) ==
  IF i > Len(ins) THEN [defs |-> defs, err |-> COk]
  ELSE LET r == addDefinition(defs, ins[i].name, ins[i].schema, ord)
       IN  IF r.err # COk THEN r ELSE ingest(r.defs, ins, i + 1, ord)

\* ToSchema as far as the definitions go: the error of ingest, or else of
\* collectDefinitions; nested definitions are ranged in the order ord and
\* allDefs in the order keys
ToSchema(ins, ord, keys) ==
  LET r == ingest(EmptyMap, ins, 1, ord)
  IN  IF r.err # COk THEN r.err
      ELSE collectDefinitions(r.defs, [set |-> TRUE, schemas |-> EmptyMap],
                              SelectSeq(keys, LAMBDA k : k \in DOMAIN r.defs)).err

\* a collection of at most MaxInputs definitions, listed by rising index
AssembleInit ==
  /\ DerefIdle
  /\ SyncIdle
  /\ CollectIdle
  /\ RewriteIdle
  /\ RaceIdle
  /\ QueryIdle
  /\ WalkIdle
  /\ RouteIdle
  /\ \E n \in 0..MaxInputs :
       \E f \in [1..n -> 1..AssemblePairs] :
         /\ \A i \in 1..(n - 1) : f[i] <= f[i + 1]
         /\ aIn = [i \in 1..n |-> AssemblePair(f[i])]
  /\ aRes = [kind |-> "pending"]

\* ToSchema on records that lead to the definitions of aIn in the order
\* perm
DoToSchema(perm, ord, keys) ==
  /\ aRes.kind = "pending"
  /\ aRes' = [kind |-> "done",
              err |-> ToSchema([i \in 1..Len(aIn) |-> aIn[perm[i]]], ord, keys)]
  /\ UNCHANGED <<aIn, derefVars, syncVars, collectVars, rewriteVars, raceVars, queryVars, walkVars, routeVars>>

AssembleNext ==
  \E perm \in Perms(1..Len(aIn)), ord \in Perms({<<"Gadget">>, <<"Widget">>}) :
    \E keys \in Perms(SeqRange(AssembleNames)) : DoToSchema(perm, ord, keys)

SpecAssemble == AssembleInit /\ [][AssembleNext]_vars

-----------------------------------------------------------------------------
(* The registration of routes: Register on a route builder, which fills    *)
(* API.models unless the route is skipped                                  *)

\* model.Nil
NilEntity == Entity(<<"NilEntity">>, TRUE, [ObjectS EXCEPT !.addl = BoolS(FALSE)])

\* the entity types routes are built on: two of them named alike
RouteEntities ==
  {Entity(<<"A">>, TRUE, ObjectS), Entity(<<"A">>, TRUE, StringS),
   Entity(<<"B">>, TRUE, ObjectS), NilEntity}

\* a route builder: with a body (RouteBuilderWithBody, on an input and an
\* output entity) or without (RouteBuilderNoBody, on an output entity);
\* valid when validate passes and a handler and a group are set; newOk
\* when model.New succeeds on its type parameters
Builder(body, valid, skipped, newOk, i, o) ==
  [body |-> body, valid |-> valid, skipped |-> skipped, newOk |-> newOk,
   input |-> i, output |-> o]

RouteBuilders ==
  {Builder(TRUE, TRUE, sk, TRUE, i, o) :
     sk \in BOOLEAN, i \in RouteEntities \ {Entity(<<"A">>, TRUE, StringS)},
     o \in RouteEntities}
    \cup {Builder(FALSE, TRUE, sk, TRUE, NoEntity, o) : sk \in BOOLEAN, o \in RouteEntities}
    \cup {Builder(b, FALSE, FALSE, TRUE, NoEntity, Entity(<<"B">>, TRUE, ObjectS)) :
            b \in BOOLEAN}
    \cup {Builder(b, TRUE, sk, FALSE, NoEntity, Entity(<<"B">>, TRUE, ObjectS)) :
            b \in BOOLEAN, sk \in BOOLEAN}

\* API.registerModel keeping the entity a name was first registered with
registerModelKeepingFirst(reg, mdl) ==
  IF mdl.name \in DOMAIN reg THEN reg ELSE MapPut(reg, mdl.name, mdl)

\* API.registerModel
registerModel(reg, mdl) == MapPut(reg, mdl.name, mdl)

\* the function registerModel[I, O, Q]: the input, then the output
registerModelIO(reg, i, o) == registerModel(registerModel(reg, i), o)

\* registerResponseEntity[O, Q]
registerResponseEntity(reg, o) == registerModel(reg, o)

\* Register on the builder rb: API.models after it, and whether it
\* returned or panicked
Register(reg, rb) ==
  IF ~rb.valid THEN [reg |-> reg, outcome |-> "panic"]
  ELSE IF rb.skipped THEN [reg |-> reg, outcome |-> "registered"]
  ELSE IF ~rb.newOk THEN [reg |-> reg, outcome |-> "panic"]
  ELSE [reg |-> IF rb.body THEN registerModelIO(reg, rb.input, rb.output)
                ELSE registerResponseEntity(reg, rb.output),
        outcome |-> "registered"]

RouteInit ==
  /\ DerefIdle
  /\ SyncIdle
  /\ CollectIdle
  /\ RewriteIdle
  /\ RaceIdle
  /\ QueryIdle
  /\ WalkIdle
  /\ AssembleIdle
  /\ routes = <<>>

\* rb.Register(api); a panic is recovered by the caller, which goes on
DoRegister(rb) ==
  /\ Len(routes) < MaxRoutes
  /\ \E r \in {Register(models, rb)} :
       /\ models' = r.reg
       /\ routes' = Append(routes, [rb |-> rb, outcome |-> r.outcome])
  /\ UNCHANGED <<dIn, dOut, dLook, dCalled, syncVars, collectVars, rewriteVars, raceVars, queryVars, walkVars, assembleVars>>

RouteNext == \E rb \in RouteBuilders : DoRegister(rb)

SpecRoutes == RouteInit /\ [][RouteNext]_vars

-----------------------------------------------------------------------------
(* Claims about API.DereferenceSchema (checked under SpecDeref) *)

\* every reference token of a schema: in its root and in its own definitions
TokensOf(sch) ==
  SeqRange(applyRefs(walkSchema(sch, <<"p", "q">>)))
    \cup UNION {SeqRange(applyRefs(walkSchema(sch.defs[k], <<"p", "q">>))) :
                  k \in DOMAIN sch.defs}

IdOf(tok) == TrimPrefix(tok, DefPrefix)

\* the identifiers the input refers to that neither its own definitions
\* nor the registry know
UnresolvedIds ==
  {IdOf(tok) : tok \in TokensOf(dIn)} \ (DOMAIN dIn.defs \cup DOMAIN models)

AllSchemasParse == \A n \in DOMAIN models : models[n].valid

\* C1: whenever the input holds a reference whose identifier is neither a
\* key of its own definitions nor a registered entity, the call fails with
\* the not-found error naming such an identifier, wherever the reference
\* stands and however many other references resolve.
C1_UnresolvedReferenceFails ==
  (dCalled /\ AllSchemasParse /\ UnresolvedIds # {})
    => (~dOut.ok /\ dOut.err.kind = "notFound" /\ dOut.err.id \in UnresolvedIds)

\* C2: for an entity registered under N and an input that references
\* #/definitions/N without defining N (its other references resolving too),
\* the call succeeds and definitions[N] of the result is the entity's
\* parsed schema.
C2_RegisteredEntityInlined ==
  (dCalled /\ AllSchemasParse /\ UnresolvedIds = {})
    => \A n \in DOMAIN models :
         (DefTok(n) \in TokensOf(dIn) /\ n \notin DOMAIN dIn.defs)
           => /\ dOut.ok
              /\ n \in DOMAIN dOut.sch.defs
              /\ dOut.sch.defs[n] = models[n].sch

\* C3: the call changes nothing but the definitions table, and there only
\* adds keys: a schema without references comes back as it was, a
\* definition the schema has itself is kept as it is, and its identifier
\* is never looked up in the registry.
C3_OnlyAddsAbsentDefinitions ==
  dCalled =>
    /\ dOut.ok => [dOut.sch EXCEPT !.defs = dIn.defs] = dIn
    /\ dOut.ok => \A k \in DOMAIN dIn.defs :
                    k \in DOMAIN dOut.sch.defs /\ dOut.sch.defs[k] = dIn.defs[k]
    /\ TokensOf(dIn) = {} => (dOut.ok /\ dOut.sch = dIn)
    /\ dLook \cap DOMAIN dIn.defs = {}

\* a successful call on a schema that refers to its own definition N while
\* the registry holds a different schema under N
C3_Witness ==
  /\ dCalled
  /\ dOut.ok
  /\ \E n \in DOMAIN dIn.defs \cap DOMAIN models :
       /\ DefTok(n) \in TokensOf(dIn)
       /\ models[n].sch # dIn.defs[n]
       /\ dOut.sch.defs[n] = dIn.defs[n]

\* the input refers to entity n by the published token
\* #/components/schemas/n, n is registered with a schema that has no
\* references of its own, and every other reference of the input is a
\* #/definitions/ token of a registered entity of that kind
PublishedCase(n) ==
  /\ dCalled
  /\ AllSchemasParse
  /\ CompTok(n) \in TokensOf(dIn)
  /\ n \in DOMAIN models
  /\ \A tok \in TokensOf(dIn) \ {CompTok(n)} :
       /\ HasPrefix(tok, DefPrefix)
       /\ IdOf(tok) \in DOMAIN models
  /\ \A k \in DOMAIN models : TokensOf(models[k].sch) = {}

\* C16: a schema that references a registered entity N by the published
\* token #/components/schemas/N is dereferenced without error, and the
\* result's definitions hold N's schema.
C16_PublishedTokenResolved ==
  \A n \in Names :
    PublishedCase(n) =>
      /\ dOut.ok
      /\ n \in DOMAIN dOut.sch.defs
      /\ dOut.sch.defs[n] = models[n].sch

\* the input refers to registered entity n without defining it, n's schema
\* refers to m, and the input neither refers to m nor defines it; the
\* input's own references all resolve
InsertedRefCase(n, m) ==
  /\ dCalled
  /\ AllSchemasParse
  /\ UnresolvedIds = {}
  /\ n \in DOMAIN models
  /\ DefTok(n) \in TokensOf(dIn)
  /\ n \notin DOMAIN dIn.defs
  /\ DefTok(m) \in TokensOf(models[n].sch)
  /\ DefTok(m) \notin TokensOf(dIn)
  /\ m \notin DOMAIN dIn.defs

\* C20: when the input references entity N and N's schema references an
\* entity M that the input neither references nor defines, the call
\* succeeds whether or not M is registered, and the result's definitions
\* hold N but not M.
C20_InsertedReferencesLeft ==
  \A n \in Names, m \in Names :
    InsertedRefCase(n, m) =>
      /\ dOut.ok
      /\ n \in DOMAIN dOut.sch.defs
      /\ m \notin DOMAIN dOut.sch.defs

-----------------------------------------------------------------------------
(* Claims about sync.Validator *)

Done == vRes.kind # "pending"

\* the Validator's model is a pointer to a struct and its schema an object
StructCase ==
  /\ vModel.kind = "ptr"
  /\ vModel.elem.kind = "struct"
  /\ vSch.typ = SimpleT("object")

ModelFields == fieldsOf(vModel.elem)

FieldAt(f) == <<"Root", f.tag>>

\* the struct has the one field of type typ, and the schema the one
\* property, of that field's name, with schema s
SoleField(typ, s) ==
  /\ StructCase
  /\ Len(ModelFields) = 1
  /\ ModelFields[1].typ = typ
  /\ DOMAIN vSch.props = {ModelFields[1].tag}
  /\ vSch.props[ModelFields[1].tag] = s
  /\ vSch.addl # BoolS(TRUE)

\* C4 as stated: against {"type":["integer","null"]} a pointer-to-integer
\* field succeeds and a non-pointer integer field gives NullableFieldError.
C4_NonPointerRejected ==
  Done =>
    /\ SoleField(PtrTo(Prim("int")), IntNullS) => vRes = Synced
    /\ SoleField(Prim("int"), IntNullS)
         => vRes = NullableFieldError(FieldAt(ModelFields[1]))

\* C4 amended: against {"type":["integer","null"]} both a pointer-to-integer
\* field and a non-pointer integer field succeed; NullableFieldError is what
\* a pointer-to-integer field without omitempty gets against the
\* non-nullable {"type":["integer"]}.
C4_NullableSchemaAccepted ==
  Done =>
    /\ SoleField(PtrTo(Prim("int")), IntNullS) => vRes = Synced
    /\ SoleField(Prim("int"), IntNullS) => vRes = Synced
    /\ (SoleField(PtrTo(Prim("int")), IntListS) /\ ~ModelFields[1].omit)
         => vRes = NullableFieldError(FieldAt(ModelFields[1]))

C4_Witness ==
  /\ Done
  /\ SoleField(Prim("int"), IntNullS)
  /\ vRes = Synced

\* a schema node is nullable: a type list holding "null", or oneOf[null, ref]
HasNull(s) ==
  \/ s.typ.form = "list" /\ "null" \in SeqRange(s.typ.ts)
  \/ NullS \in SeqRange(s.oneOf)

\* the first field of the struct is a pointer or a map, is no entity, and
\* is checked against a property whose schema resolves to one type
FirstFieldCase ==
  /\ StructCase
  /\ Len(ModelFields) >= 1
  /\ ModelFields[1].tag \in DOMAIN vSch.props
  /\ vSch.addl # BoolS(TRUE)
  /\ ModelFields[1].typ.kind \in {"ptr", "map"}
  /\ ~ModelFields[1].typ.entity
  /\ ensureDereference(vSch, vSch.props[ModelFields[1].tag]).err = ""
  /\ getType(ensureDereference(vSch, vSch.props[ModelFields[1].tag]).sch).err = ""

\* the slice's element is a pointer checked against the one items schema
ItemCase ==
  /\ vModel.kind = "slice"
  /\ vModel.elem.kind = "ptr"
  /\ vSch.typ = SimpleT("array")
  /\ vSch.allOf = <<>> /\ vSch.anyOf = <<>> /\ vSch.oneOf = <<>>
  /\ vSch.items.form = "single"
  /\ vSch.items.one.k = "schema"

FieldNames == {ModelFields[i].tag : i \in 1..Len(ModelFields)}

\* C6: a struct passes against an object schema only if every field but
\* `id` names a property and every property names a field; a missing
\* property is reported (under the struct's own breadcrumbs) for a field
\* that has none, an additional property for a property that no field
\* names, and the first field without a property is reported as such.
C6_ClosedWorld ==
  (Done /\ StructCase) =>
    /\ vRes = Synced
         => /\ FieldNames \ {"id"} \subseteq DOMAIN vSch.props
            /\ DOMAIN vSch.props \subseteq FieldNames
    /\ (vRes.kind = "missingProperty" /\ vRes.at = RootCrumbs)
         => vRes.a \in (FieldNames \ {"id"}) \ DOMAIN vSch.props
    /\ (vRes.kind = "AdditionalPropertyError" /\ vRes.at = RootCrumbs)
         => vRes.a \in DOMAIN vSch.props \ FieldNames
    /\ (Len(ModelFields) >= 1 /\ ModelFields[1].tag \notin DOMAIN vSch.props \cup {"id"})
         => vRes = Res("missingProperty", ModelFields[1].tag, "", RootCrumbs)
    /\ (ModelFields = <<>> /\ vSch.props # EmptyMap)
         => vRes.kind = "AdditionalPropertyError"

C6_Witness ==
  /\ Done
  /\ StructCase
  /\ Len(ModelFields) = 2
  /\ "id" \notin FieldNames
  /\ vRes = Synced

SignedKinds == {"int", "int8", "int16", "int32", "int64"}

UnsignedKinds == {"uint", "uint8", "uint16", "uint32", "uint64"}

FloatKinds == {"float32", "float64"}

\* a value that is neither a pointer nor opaque, against a schema with a
\* single primitive type
PrimitiveCase ==
  /\ vModel.kind \in AllKinds \/ isByteArray(vModel) \/ isTimestamp(vModel)
  /\ ~isJSONRawMessage(vModel)
  /\ vSch.typ.form = "simple"
  /\ vSch.typ.ts[1] \in {"boolean", "integer", "number", "string"}

Consistent(t, val) ==
  CASE t = "boolean" -> val.kind = "bool"
    [] t = "integer" -> val.kind \in SignedKinds \cup UnsignedKinds
    [] t = "number" -> val.kind \in SignedKinds \cup UnsignedKinds \cup FloatKinds
    [] t = "string" -> val.kind = "string" \/ isByteArray(val) \/ isTimestamp(val)

\* C7: boolean matches the boolean kind only, integer every signed or
\* unsigned integer kind, number every integer or floating kind, string the
\* string, byte-sequence and timestamp kinds; any other pairing gives a
\* SchemaTypeError with the expected type and the kind found.
C7_PrimitiveMatching ==
  (Done /\ PrimitiveCase) =>
    IF Consistent(vSch.typ.ts[1], vModel) THEN vRes = Synced
    ELSE vRes = SchemaTypeError(vSch.typ.ts[1], vModel.kind, RootCrumbs)

\* the slice's elements are checked against an items schema that is no
\* schema object
UnsetItemsCase ==
  /\ vModel.kind = "slice"
  /\ vSch.typ = SimpleT("array")
  /\ vSch.allOf = <<>> /\ vSch.anyOf = <<>> /\ vSch.oneOf = <<>>
  /\ vSch.items.form = "single"
  /\ vSch.items.one.k # "schema"

\* C8: against an unset schema node a concrete value fails as a value that
\* should have a definite schema, and an interface value succeeds.
C8_UnsetSchema ==
  (Done /\ UnsetItemsCase) =>
    IF vModel.elem.kind = "interface" THEN vRes = Synced
    ELSE vRes.kind = "nonInterface"

\* a non-pointer value against a schema whose type is a list
TypeListCase ==
  /\ vModel.kind \in AllKinds
  /\ vSch.typ.form = "list"

NonNull(ts) == SelectSeq(ts, LAMBDA t : t # "null")

\* C9: a type list is accepted only when exactly one type remains once
\* "null" is removed; any other list is rejected with the error value for
\* an unsupported list of types.
C9_TypeListRejected ==
  (Done /\ TypeListCase) =>
    IF Len(NonNull(vSch.typ.ts)) = 1
      THEN vRes.kind \in {"ok", "SchemaTypeError"}
      ELSE vRes.kind = "multipleTypes"

\* the outcomes that are a diagnostic returned as an error value
Diagnosed == Done /\ vRes.kind \notin {"ok", "panic", "stackOverflow"}

\* C23: a struct, whatever its fields, checked against an object schema
\* with additionalProperties: true is rejected with a diagnostic returned
\* as an error value.
C23_OpenStructSchemaRejected ==
  (Done /\ StructCase /\ vSch.addl = BoolS(TRUE)) => Diagnosed

\* the schema is of type array
ArrayCase == vSch.typ = SimpleT("array")

\* C24: against a schema of type array a shape that is no sequence gets a
\* SchemaTypeError, and a sequence is checked against the members of
\* allOf, anyOf and oneOf and against items, a tuple of items standing
\* for its first schema; every outcome is success or a returned
\* diagnostic.
C24_ArrayMatching ==
  (Done /\ ArrayCase) =>
    /\ vModel.kind \notin {"slice", "array"} => vRes.kind = "SchemaTypeError"
    /\ vRes = Synced \/ Diagnosed

\* the Validator's model is a map and its schema an object
MapCase ==
  /\ vModel.kind = "map"
  /\ vSch.typ \in {SimpleT("object"), ListT(<<"object", "null">>)}

\* the map's value type is consistent with the schema node: checked alone
\* against it, as the value of a key, it is in sync
ValueFits(node) ==
  \A pord \in Perms(PropKeysOf(vSch)) :
    traverse(vSch, node, vModel.elem, FALSE, <<"Root", "[key]">>, pord, {}) = Synced

\* C25: a map against an object schema with additionalProperties false
\* fails as a strict-map mismatch; against any other object schema it
\* passes exactly when its value type is consistent with the
\* additionalProperties schema (when that is a schema) and with every
\* schema among the properties.
C25_MapMatching ==
  (Done /\ MapCase) =>
    IF vSch.addl = BoolS(FALSE) THEN vRes.kind = "strictMap"
    ELSE vRes = Synced
           <=> /\ vSch.addl.k = "schema" => ValueFits(vSch.addl)
               /\ \A k \in DOMAIN vSch.props :
                    vSch.props[k].k = "schema" => ValueFits(vSch.props[k])

-----------------------------------------------------------------------------
(* Claims about the ReflectorWrapper *)

\* the names stored in defs that differ from name by letter case only
CaseTwins(name, defs) ==
  {n \in DOMAIN defs : n # name /\ ToLower(n) = ToLower(name)}

\* C10 as stated: adding a name that differs only by letter case from a
\* stored name makes the add call fail with the conflict error carrying the
\* stored name first and the new name second.
C10_AddRejectsCaseTwin ==
  (cOp.op = "add" /\ CaseTwins(cOp.name, cOp.before) # {})
    => \E n \in CaseTwins(cOp.name, cOp.before) :
         cOp.err = CErr("conflicting", n, cOp.name)

\* C10 amended: the add call never reports the conflict, and when it
\* succeeds the new name is stored next to its case twin; the conflict is
\* reported when the definitions are collected, exactly when two stored
\* names differ by letter case only, with those two names in either order
\* and with nothing committed to the components.
C10_CollectRejectsCaseTwins ==
  /\ cOp.op = "add"
       => /\ cOp.err.kind # "conflicting"
          /\ (cOp.err = COk /\ CaseTwins(cOp.name, cOp.before) # {})
               => CaseTwins(cOp.name, cOp.before) \cup {cOp.name} \subseteq DOMAIN allDefs
  /\ cOp.op = "collect"
       => /\ cOp.err.kind \in {"ok", "conflicting"}
          /\ cOp.err.kind = "conflicting"
               <=> \E n \in DOMAIN allDefs : CaseTwins(n, allDefs) # {}
          /\ cOp.err.kind = "conflicting"
               => /\ cOp.err.b \in DOMAIN allDefs
                  /\ cOp.err.a \in CaseTwins(cOp.err.b, allDefs)
                  /\ components.schemas = cOp.committed

\* the conflict reported with the later-added name first
C10_Witness ==
  /\ cOp.op = "collect"
  /\ cOp.err = CErr("conflicting", <<"widget">>, <<"Widget">>)
  /\ components.set


\* the canonical form of a schema: the schema without its examples
Canonical(s) == [s EXCEPT !.examples = 0]

\* the last call added a schema under a name stored with another canonical
\* schema
RedefinedCase ==
  /\ cOp.op = "add"
  /\ cOp.name \in DOMAIN cOp.before
  /\ Canonical(cOp.before[cOp.name]) # Canonical(cOp.schema)

\* C11: adding a definition under a name that is stored with a different
\* canonical schema fails with the error for a different definition naming
\* that name, whichever of the two schemas came first, and leaves the
\* table as it was.
C11_DifferentDefinitionRejected ==
  RedefinedCase
    => /\ cOp.err = CErr("differentDefinition", cOp.name, <<>>)
       /\ allDefs = cOp.before

C11_Witness ==
  /\ RedefinedCase
  /\ cOp.before[cOp.name] = IntS
  /\ cOp.schema = StringS
  /\ cOp.err.kind = "differentDefinition"

\* the last two calls added the same name and schema, the first with success
RepeatedCase ==
  /\ cPrev.op = "add"
  /\ cPrev.err = COk
  /\ cOp.op = "add"
  /\ cOp.name = cPrev.name
  /\ cOp.schema = cPrev.schema

ExampleTwinCase ==
  /\ cPrev.op = "add"
  /\ cOp.op = "add"
  /\ cOp.name = cPrev.name
  /\ Canonical(cOp.schema) = Canonical(cPrev.schema)
  /\ (cOp.schema.examples > 0) # (cPrev.schema.examples > 0)

\* C13: of two adds under one name of schemas with the same canonical form,
\* exactly one carrying examples, neither fails and the table keeps the one
\* with the examples, in both orders.
C13_ExampleCarrierKept ==
  ExampleTwinCase
    => /\ cPrev.err = COk
       /\ cOp.err = COk
       /\ allDefs[cOp.name] =
            (IF cOp.schema.examples > 0 THEN cOp.schema ELSE cPrev.schema)

\* the schema without examples added after the one with them
C13_Witness ==
  /\ ExampleTwinCase
  /\ cPrev.schema.examples > 0
  /\ cOp.err = COk
  /\ allDefs[cOp.name].examples > 0

\* the last call added a schema under a name already stored with the same
\* canonical form
SameCanonicalCase ==
  /\ cOp.op = "add"
  /\ cOp.name \in DOMAIN cOp.before
  /\ Canonical(cOp.before[cOp.name]) = Canonical(cOp.schema)

\* C26 as stated: an add under a stored name of a schema with the stored
\* canonical form leaves the stored entry as it was, unless the new schema
\* carries examples and the stored one none, when the new one replaces it;
\* when both carry examples the stored entry and its examples are kept.
C26_StoredEntryKept ==
  SameCanonicalCase =>
    allDefs[cOp.name] =
      (IF cOp.schema.examples > 0 /\ cOp.before[cOp.name].examples = 0
         THEN cOp.schema ELSE cOp.before[cOp.name])

\* C26 amended: such an add succeeds and leaves the stored entry as it was
\* only when the stored one carries examples and the new one none; in
\* every other case the new schema replaces it, so that when both carry
\* examples the entry ends with the examples of the new one.
C26_NewEntryStored ==
  SameCanonicalCase =>
    /\ cOp.err = COk
    /\ allDefs[cOp.name] =
         (IF cOp.before[cOp.name].examples > 0 /\ cOp.schema.examples = 0
            THEN cOp.before[cOp.name] ELSE cOp.schema)

\* both carry examples, and not the same ones
C26_Witness ==
  /\ SameCanonicalCase
  /\ cOp.before[cOp.name].examples > 0
  /\ cOp.schema.examples > 0
  /\ cOp.schema.examples # cOp.before[cOp.name].examples
  /\ allDefs[cOp.name] = cOp.schema


\* C27 as stated: once every add has succeeded, collectDefinitions cannot
\* fail.
C27_FinalizeTotal == Collected => cOp.err = COk

\* two of the stored names differ by letter case only
HasCaseTwins(defs) ==
  \E n \in DOMAIN defs, m \in DOMAIN defs : n # m /\ ToLower(n) = ToLower(m)

\* C27 amended: once every add has succeeded, collectDefinitions fails
\* exactly when two of the stored names differ by letter case only, and
\* then commits nothing; otherwise it succeeds and, when the document has
\* components, commits every stored definition without its nested
\* definitions.
C27_FinalizeFailsOnCaseTwinsOnly ==
  Collected =>
    /\ cOp.err = COk <=> ~HasCaseTwins(allDefs)
    /\ cOp.err # COk => components.schemas = cOp.committed
    /\ (cOp.err = COk /\ components.set)
         => \A n \in DOMAIN allDefs :
              /\ n \in DOMAIN components.schemas
              /\ components.schemas[n] = [allDefs[n] EXCEPT !.defs = EmptyMap]

\* add has stored Widget and widget, each with success, and the commit fails
C27_Witness ==
  /\ Collected
  /\ cPrev.op = "add"
  /\ cPrev.err = COk
  /\ {<<"Widget">>, <<"widget">>} \subseteq DOMAIN allDefs
  /\ cOp.err.kind = "conflicting"

\* C29: an add that fails leaves allDefs as it was before the call, also
\* when it fails on a nested definition after the schema itself was
\* stored.
C29_FailedAddLeavesTable ==
  (cOp.op = "add" /\ cOp.err # COk) => allDefs = cOp.before

\* the reference tokens of a stored definition: those of the nodes a walk
\* of it visits
StoredTokens(s) == SeqRange(applyRefs(walkSchema(s, <<"p", "q">>)))

\* C22: every reference token of every definition the collector holds, the
\* models' own schemas and the nested definitions flattened out of them
\* at any depth, carries the published prefix #/components/schemas/.
C22_StoredTokensPublished ==
  \A n \in DOMAIN allDefs :
    \A tok \in StoredTokens(allDefs[n]) : HasPrefix(tok, CompPrefix)

-----------------------------------------------------------------------------
(* Claims about the rewriting of references *)

\* the nodes of a schema that walkRefs visits, in one order
RefNodesOf(sch) ==
  walkSchema(sch, <<"p", "q">>)
    \o walkAll(MapValues(sch.defs, <<<<"A">>, <<"B">>, <<"C">>>>), <<"p", "q">>)

\* C14 as stated: rewriting leaves every token that carries the target
\* prefix as it is, and a schema rewritten once is not changed by rewriting
\* it again.
C14_PrefixedTokensKept ==
  /\ rCount >= 1
       => /\ Len(RefNodesOf(rSch)) = Len(RefNodesOf(rPrev))
          /\ \A i \in 1..Len(RefNodesOf(rPrev)) :
               HasPrefix(RefNodesOf(rPrev)[i].ref, CompPrefix)
                 => RefNodesOf(rSch)[i].ref = RefNodesOf(rPrev)[i].ref
  /\ rCount >= 2 => rSch = rPrev

\* the token holds "#/definitions/" somewhere
HoldsDefPrefix(tok) ==
  \E i \in 1..Len(tok) : HasPrefix(SubSeq(tok, i, Len(tok)), DefPrefix)

\* C14 amended: rewriting leaves every token that carries the target prefix
\* and holds no "#/definitions/" as it is, and a schema rewritten once is
\* not changed by rewriting it again, whatever its tokens were.
C14_RewriteIdempotent ==
  /\ rCount >= 1
       => /\ Len(RefNodesOf(rSch)) = Len(RefNodesOf(rPrev))
          /\ \A i \in 1..Len(RefNodesOf(rPrev)) :
               (/\ HasPrefix(RefNodesOf(rPrev)[i].ref, CompPrefix)
                /\ ~HoldsDefPrefix(RefNodesOf(rPrev)[i].ref))
                 => RefNodesOf(rSch)[i].ref = RefNodesOf(rPrev)[i].ref
  /\ rCount >= 2 => rSch = rPrev

C14_Witness ==
  /\ rCount = 2
  /\ rSch = rPrev
  /\ \E i \in 1..Len(RefNodesOf(rSch)) :
       RefNodesOf(rSch)[i].ref = CompPrefix \o CompTok(<<"A">>)

\* the token carries neither "#/definitions/" nor "#/components/schemas/"
\* in front
Unprefixed(tok) ==
  /\ tok # <<>>
  /\ ~HasPrefix(tok, DefPrefix)
  /\ ~HasPrefix(tok, CompPrefix)

\* C15: a token with neither prefix is rewritten to the target prefix
\* followed by its last path segment only.
C15_LastSegmentKept ==
  rCount = 1
    => \A i \in 1..Len(RefNodesOf(rPrev)) :
         Unprefixed(RefNodesOf(rPrev)[i].ref)
           => RefNodesOf(rSch)[i].ref
                = CompPrefix \o <<RefNodesOf(rPrev)[i].ref[Len(RefNodesOf(rPrev)[i].ref)]>>

-----------------------------------------------------------------------------
(* Claims about the registry under concurrency *)

\* C18: a lookup made for DereferenceSchema is never inside the registry
\* while a registration is writing it, and what it returns is an entity
\* that was stored whole or no entity: never a partial one, and never the
\* runtime's abort.
C18_RegistryGuarded ==
  /\ ~(getPc = "reading" /\ regPc = "writing")
  /\ getRes.kind \in {"none", "absent", "found"}
  /\ getRes.kind = "found" => getRes.ent \in RaceEntities

-----------------------------------------------------------------------------
(* Claims about DecodeQueryParams *)

QTagged == {i \in 1..Len(qFields) : qFields[i].tag # ""}

\* the text field i is decoded from: the parameter when it is present and
\* non-empty, else the default tag
QText(i) ==
  IF FormGet(qForm, qFields[i].tag) # <<>> THEN FormGet(qForm, qFields[i].tag)
  ELSE qFields[i].dflt

QBase(typ) == IF typ.kind = "ptr" THEN typ.elem ELSE typ.kind

QParses(base, s) ==
  \/ base \notin {"int", "bool", "time"}
  \/ base = "int" /\ Atoi(s).ok
  \/ base = "bool" /\ ParseBool(s).ok
  \/ base = "time" /\ parseQueryTime(s).ok

\* the value of type typ that the text s denotes
QDenotes(typ, s) ==
  LET base == QBase(typ)
      ptr == IF typ.kind = "ptr" THEN "set" ELSE "no"
  IN  IF base = "int" THEN QVal(base, <<>>, Atoi(s).n, ptr)
      ELSE IF base = "bool" THEN QVal(base, <<>>, ParseBool(s).n, ptr)
      ELSE IF base = "time" THEN QVal(base, <<>>, parseQueryTime(s).n, ptr)
      ELSE QVal(base, s, 0, ptr)

\* field i is decoded as the text s says: no error is returned at it, and a
\* call that succeeds leaves the value s denotes in it
QTakes(i, s) ==
  /\ qOut.at # i
  /\ qOut.ok => qOut.params[i] = QDenotes(qFields[i].typ, s)

\* field i is left alone: no error is returned at it, and a call that
\* succeeds leaves it at its zero value
QLeft(i) ==
  /\ qOut.at # i
  /\ qOut.ok => qOut.params[i] = QZero(qFields[i].typ)

QDecoded == qCalled /\ ~qForm.bad

\* C19 (as stated): for every tagged field, an absent or empty parameter
\* takes the default tag's value when there is one and otherwise leaves
\* the field at its zero value without error; a present non-empty
\* parameter overrides the default; a text that does not parse for an int
\* or bool field makes the call fail.
C19_DefaultSubstitution ==
  QDecoded =>
    \A i \in QTagged :
      IF QText(i) = <<>> THEN QLeft(i)
      ELSE IF QBase(qFields[i].typ) \in {"int", "bool"}
                /\ ~QParses(QBase(qFields[i].typ), QText(i))
        THEN ~qOut.ok
      ELSE QTakes(i, QText(i))

QSupported == {"string", "int", "bool", "time"}

\* C19 (amended): the substitution holds for the tagged fields of type
\* string, int, bool, time.Time or pointer to one of these, a text that
\* does not parse for an int, bool or time field making the call fail; a
\* tagged field of another type with a non-empty text makes the call fail,
\* unless it is a pointer, which is left nil.
C19_SupportedFieldsSubstituted ==
  QDecoded =>
    \A i \in QTagged :
      LET typ == qFields[i].typ
      IN  IF QText(i) = <<>> THEN QLeft(i)
          ELSE IF QBase(typ) \in QSupported
            THEN IF QParses(QBase(typ), QText(i)) THEN QTakes(i, QText(i))
                 ELSE ~qOut.ok
          ELSE IF typ.kind = "ptr" THEN QLeft(i)
          ELSE ~qOut.ok

\* a successful call in which one field took its default for an absent
\* parameter and another was given a parameter that overrode its default
C19_Witness ==
  /\ QDecoded
  /\ qOut.ok
  /\ \E i \in QTagged, j \in QTagged :
       /\ qFields[i].dflt # <<>>
       /\ qFields[i].tag \notin DOMAIN qForm.vals
       /\ qOut.params[i] = QDenotes(qFields[i].typ, qFields[i].dflt)
       /\ qOut.params[i] # QZero(qFields[i].typ)
       /\ qFields[j].dflt # <<>>
       /\ FormGet(qForm, qFields[j].tag) # <<>>
       /\ qOut.params[j] = QDenotes(qFields[j].typ, FormGet(qForm, qFields[j].tag))
       /\ qOut.params[j] # QDenotes(qFields[j].typ, qFields[j].dflt)

-----------------------------------------------------------------------------
(* Termination of Validator.IsSynced *)

\* C17: IsSynced returns, with success or with a diagnostic, for every
\* schema and runtime type, a self-referencing definition paired with a
\* type that contains itself included: no call ends by exhausting the
\* stack.
C17_IsSyncedTerminates ==
  Done => vRes.kind # "stackOverflow"

-----------------------------------------------------------------------------
(* Claims about ToSchema (checked under SpecAssemble) *)

\* the definitions of aIn in the order listed
InOrder == ToSchema(aIn, <<<<"Gadget">>, <<"Widget">>>>, AssembleNames)

\* C28: whether ToSchema on a collection of definitions succeeds is the
\* same in whatever order they are added, and the maps ranged; the error
\* it fails with may differ.
C28_OutcomeOrderIndependent ==
  aRes.kind = "done" => (aRes.err = COk <=> InOrder = COk)

\* ToSchema has failed with another error than in the order listed
C28_Witness ==
  /\ aRes.kind = "done"
  /\ aRes.err # COk
  /\ InOrder # COk
  /\ aRes.err # InOrder

-----------------------------------------------------------------------------
(* Claims about the entity registry (checked under SpecRoutes) *)

\* the entities of the k-th Register call, if it registered a route that
\* is not skipped: the input then the output, or the output alone
UsedBy(k) ==
  IF routes[k].outcome # "registered" \/ routes[k].rb.skipped THEN <<>>
  ELSE IF routes[k].rb.body THEN <<routes[k].rb.input, routes[k].rb.output>>
  ELSE <<routes[k].rb.output>>

RECURSIVE UsedUpTo(_)

\* the entities of the first k Register calls, in the order registered
UsedUpTo(k) == IF k = 0 THEN <<>> ELSE UsedUpTo(k - 1) \o UsedBy(k)

\* those of them named name
UsedAs(name) == SelectSeq(UsedUpTo(Len(routes)), LAMBDA e : e.name = name)

RouteNames == {e.name : e \in RouteEntities} \cup {<<"C">>}

-----------------------------------------------------------------------------
(* Claims about walkRefs / walkSchema *)

\* the edges of a node by which a schema is reachable from it; i tells the
\* members of a list or the keys of properties apart
WalkLabels == [e : SeqRange(WalkEdges), i : 1..2]

ChildAt(n, l) ==
  LET nth(q) == IF l.i <= Len(q) THEN q[l.i] ELSE NilS
      key == <<"x", "y">>[l.i]
  IN  IF l.e \in {"allOf", "anyOf", "oneOf"}
        THEN nth(IF l.e = "allOf" THEN n.allOf ELSE IF l.e = "anyOf" THEN n.anyOf ELSE n.oneOf)
      ELSE IF l.e = "items" THEN (IF n.items.form = "tuple" THEN nth(n.items.many) ELSE NilS)
      ELSE IF l.e = "props" THEN (IF key \in DOMAIN n.props THEN n.props[key] ELSE NilS)
      ELSE IF l.i # 1 THEN NilS
      ELSE IF l.e = "addItems" THEN n.addItems
      ELSE IF l.e = "item" THEN (IF n.items.form = "single" THEN n.items.one ELSE NilS)
      ELSE IF l.e = "contains" THEN n.contains
      ELSE IF l.e = "addl" THEN n.addl
      ELSE n.notS

\* the structural positions of the schema nodes reachable from n: the
\* paths of edges that lead from n to a schema node
RECURSIVE PositionsIn(_)
PositionsIn(n) ==
  IF n.k # "schema" THEN {}
  ELSE {<<>>} \cup UNION {{<<l>> \o p : p \in PositionsIn(ChildAt(n, l))} : l \in WalkLabels}

RECURSIVE NodeAt(_, _)
NodeAt(n, p) == IF p = <<>> THEN n ELSE NodeAt(ChildAt(n, Head(p)), Tail(p))

\* the positions under the root and under each value of the root's own
\* definitions table
WalkPositions ==
  IF wRoot.k # "schema" THEN {}
  ELSE {[def |-> <<>>, path |-> p] : p \in PositionsIn(wRoot)}
         \cup UNION {{[def |-> k, path |-> p] : p \in PositionsIn(wRoot.defs[k])} :
                       k \in DOMAIN wRoot.defs}

NodeOf(pos) ==
  NodeAt(IF pos.def = <<>> THEN wRoot ELSE wRoot.defs[pos.def], pos.path)

Count(q, x) == Cardinality({i \in 1..Len(q) : q[i] = x})

\* C21: the visitor is invoked exactly once for each position of a schema
\* node reachable from the root, or from a value of the root's definitions
\* table, through additionalItems, items, contains, additionalProperties,
\* properties, allOf/anyOf/oneOf and not, and for nothing else (no
\* definitions table of another node is entered, a nil root visits
\* nothing); the callback runs on exactly the visited nodes whose ref is
\* set.
C21_WalkVisitsEachOnce ==
  wCalled =>
    /\ Len(wSeen) = Cardinality(WalkPositions)
    /\ \A pos \in WalkPositions :
         Count(wSeen, NodeOf(pos))
           = Cardinality({q \in WalkPositions : NodeOf(q) = NodeOf(pos)})
    /\ Len(wRefs) = Cardinality({pos \in WalkPositions : NodeOf(pos).ref # <<>>})
    /\ \A pos \in WalkPositions :
         NodeOf(pos).ref # <<>>
           => Count(wRefs, NodeOf(pos).ref)
                = Cardinality({q \in WalkPositions : NodeOf(q).ref = NodeOf(pos).ref})

\* a walk over a root with definitions that visits a node under not twice
\* (once under the root, once under a definition) and passes by a nested
\* definitions table that holds a reference
C21_Witness ==
  /\ wCalled
  /\ wRoot.k = "schema"
  /\ DOMAIN wRoot.defs = {<<"A">>, <<"B">>}
  /\ wRoot.notS.k = "schema"
  /\ \E i \in 1..Len(wSeen) :
       /\ DOMAIN wSeen[i].defs # {}
       /\ i > 1
       /\ \E k \in DOMAIN wSeen[i].defs :
            wSeen[i].defs[k].ref # <<>> /\ Count(wRefs, wSeen[i].defs[k].ref) = 0
  /\ Len(wRefs) >= 3

====
